---- MODULE Spec2Model ----
(***************************************************************************)
(* Model of the datev-lint file engine: the streaming tokenizer, the       *)
(* preserve writer, the risk gate, conflict resolution and the             *)
(* backup / atomic write / audit / rollback sequence of the fix engine.    *)
(* Strings of the program are sequences of one-character strings.          *)
(***************************************************************************)
EXTENDS Integers, Sequences, FiniteSets, TLC

VARIABLES
    \* tokenize_stream (core/parser/tokenizer.py): the text, the locals of the
    \* generator (i, state, fields, field_buffer, line_no, record_start_line,
    \* the records yielded so far) and whether it has returned
    text, tok, tok_pc,
    \* tokenize_line on the same text: its locals and its position
    lt, lt_pc,
    \* PreserveWriter.write (core/fix/writer.py)
    original_bytes, encoding, wr_patches, result_bytes, wr_pc,
    \* should_apply (core/fix/risk.py): its arguments and its return value
    rk_patch, rk_accept, rk_result, rk_pc,
    \* ConflictDetector (core/fix/conflicts.py): the input list, the strategy,
    \* the conflicts found and the resolved list
    cd_patches, resolution, conflicts, resolved, cd_pc,
    \* The file system seen by the fix engine: the target file, the backup
    \* files by path, the temporary file of the atomic write and whether its
    \* descriptor is open, the audit entries by run id
    target, backups, temp, fd_open, audit,
    \* apply_fixes / write_file (core/fix/__init__.py, writer.py): arguments,
    \* locals, the returned pair and the position in the code
    plan, parse_result, mode, create_backup, accept_risk,
    accepted_patches, backup_path, content, fallback_used, result, audit_entry, fx_pc,
    \* rollback (core/fix/__init__.py): its argument, its result and whether
    \* it returned
    rb_run_id, rb_result, rb_pc,
    \* History: the target's content when apply_fixes was called, and the last
    \* I/O call that failed
    pre_bytes, fault,
    \* PatchPlanner.plan (core/fix/planner.py): the fix candidates of the
    \* findings, the strategy, the plan built and whether plan returned
    findings, pl_resolution, planned, pl_pc,
    \* AuditLogger over one audit directory (core/fix/audit.py): the stored
    \* entries by run id, the clock, and whether the last call raised
    audit_dir, now, au_raised,
    \* AuditLogger.get_entry: the JSON files outside the audit directory by
    \* path, what the last call returned and the path of the file it read
    au_outside, au_got, au_read,
    \* parse_bytes (core/parser/__init__.py): the file, what parse_header
    \* returned, the ParseResult, the items of the last iteration of its rows
    \* and the number of iterations
    pb_data, pb_parsed, pb_result, pb_items, pb_iterations,
    \* The loop of parse_bytes.row_factory on a long file: row_no, the records
    \* still to come, the number of rows yielded, the items yielded by the
    \* last steps, the number of non-blank data records of the file (history)
    \* and the position in the code
    rf_row_no, rf_rest, rf_emitted, rf_tail, rf_data_rows, rf_pc,
    \* derive_year (core/parser/dates.py): its arguments, the DerivedDate it
    \* returned and whether it returned
    dy_ttmm, dy_fiscal_year_start, dy_period_from, dy_period_to, dy_derived, dy_pc,
    \* BackupManager.create_backup called again and again (core/fix/backup.py):
    \* the file, the backup files by path, the locals backup_path and counter,
    \* the path and content of every backup made (history) and the position
    bm_file, bm_backups, bm_path, bm_counter, bm_made, bm_pc

tokVars == <<text, tok, tok_pc, lt, lt_pc>>

wrVars == <<original_bytes, encoding, wr_patches, result_bytes, wr_pc>>

rkVars == <<rk_patch, rk_accept, rk_result, rk_pc>>

cdVars == <<cd_patches, resolution, conflicts, resolved, cd_pc>>

fxVars == <<target, backups, temp, fd_open, audit, plan, parse_result, mode,
            create_backup, accept_risk, accepted_patches, backup_path, content,
            fallback_used, result, audit_entry, fx_pc, rb_run_id, rb_result,
            rb_pc, pre_bytes, fault>>

plVars == <<findings, pl_resolution, planned, pl_pc>>

auVars == <<audit_dir, now, au_raised, au_outside, au_got, au_read>>

pbVars == <<pb_data, pb_parsed, pb_result, pb_items, pb_iterations>>

rfVars == <<rf_row_no, rf_rest, rf_emitted, rf_tail, rf_data_rows, rf_pc>>

dyVars == <<dy_ttmm, dy_fiscal_year_start, dy_period_from, dy_period_to, dy_derived, dy_pc>>

bmVars == <<bm_file, bm_backups, bm_path, bm_counter, bm_made, bm_pc>>

vars == <<tokVars, wrVars, rkVars, cdVars, fxVars, plVars, auVars, pbVars, rfVars, dyVars, bmVars>>

notTok == <<wrVars, rkVars, cdVars, fxVars, plVars, auVars, pbVars, rfVars, dyVars, bmVars>>
notWr == <<tokVars, rkVars, cdVars, fxVars, plVars, auVars, pbVars, rfVars, dyVars, bmVars>>
notRk == <<tokVars, wrVars, cdVars, fxVars, plVars, auVars, pbVars, rfVars, dyVars, bmVars>>
notCd == <<tokVars, wrVars, rkVars, fxVars, plVars, auVars, pbVars, rfVars, dyVars, bmVars>>
notFx == <<tokVars, wrVars, rkVars, cdVars, plVars, auVars, pbVars, rfVars, dyVars, bmVars>>
notPl == <<tokVars, wrVars, rkVars, cdVars, fxVars, auVars, pbVars, rfVars, dyVars, bmVars>>
notAu == <<tokVars, wrVars, rkVars, cdVars, fxVars, plVars, pbVars, rfVars, dyVars, bmVars>>
notPb == <<tokVars, wrVars, rkVars, cdVars, fxVars, plVars, auVars, rfVars, dyVars, bmVars>>
notRf == <<tokVars, wrVars, rkVars, cdVars, fxVars, plVars, auVars, pbVars, dyVars, bmVars>>
notDy == <<tokVars, wrVars, rkVars, cdVars, fxVars, plVars, auVars, pbVars, rfVars, bmVars>>
notBm == <<tokVars, wrVars, rkVars, cdVars, fxVars, plVars, auVars, pbVars, rfVars, dyVars>>

-----------------------------------------------------------------------------
(* Dialect                                                                 *)

DELIM == ";"
QUOTE == "\""
CR == "\r"
LF == "\n"
None == "None"

\* Bound: longest text handed to the tokenizer.
MaxTextLen == 4

\* The characters texts are drawn from: data, blank, delimiter, quote, CR, LF.
Chars == {"a", " ", DELIM, QUOTE, CR, LF}

RECURSIVE SeqsUpTo(_, _)
SeqsUpTo(S, n) ==
    IF n = 0 THEN {<<>>}
    ELSE LET shorter == SeqsUpTo(S, n - 1)
         IN shorter \cup {Append(s, c) : s \in {t \in shorter : Len(t) = n - 1}, c \in S}

-----------------------------------------------------------------------------
(* tokenize_stream: one action per state of the state machine.             *)

\* text[i + 1] if i + 1 < len(text) else None (positions are 1-based here)
NextChar(t, k) == IF k + 1 <= Len(t) THEN t[k + 1] ELSE None

\* is_line_terminator: CR, LF (and so CRLF) are accepted
is_line_terminator(c) == c \in {CR, LF}

\* "if char == '\n': line_no += 1", executed before the state dispatch
LineAfterChar(c, ln) == IF c = LF THEN ln + 1 ELSE ln

\* A test that lets every record pass
AnyFieldAlways(fs) == TRUE

\* any(f for f in fields): some field is a non-empty string
AnyField(fs) == \E k \in 1..Len(fs) : fs[k] # <<>>

\* A record start that runs one line ahead after a CR
RecordStartAfterBug(c, ln) == IF c = LF THEN ln ELSE ln + 1

\* record_start_line = line_no if char == "\n" else line_no
RecordStartAfter(c, ln) == ln

\* The locals of tokenize_stream before the first character
TokStart ==
    [i |-> 1, state |-> "FIELD_START", fields |-> <<>>, field_buffer |-> <<>>,
     line_no |-> 1, record_start_line |-> 1, records |-> <<>>]

\* The "End of record" branch shared by FIELD_START, IN_UNQUOTED and
\* QUOTE_IN_QUOTED: close the field, yield unless empty, reset, skip LF of CRLF.
EndOfRecord(s, t, c) ==
    LET ln == LineAfterChar(c, s.line_no)
        fs == Append(s.fields, s.field_buffer)
        crlf == c = CR /\ NextChar(t, s.i) = LF
    IN  [i |-> IF crlf THEN s.i + 2 ELSE s.i + 1,
         state |-> "FIELD_START",
         fields |-> <<>>,
         field_buffer |-> <<>>,
         line_no |-> IF crlf THEN ln + 1 ELSE ln,
         record_start_line |-> RecordStartAfter(c, ln),
         records |-> IF AnyField(fs)
                     THEN Append(s.records, [fields |-> fs,
                                             start_line |-> s.record_start_line,
                                             end_line |-> ln])
                     ELSE s.records]

\* A step that only moves within the record.
InRecord(s, c, st, fs, buf) ==
    [s EXCEPT !.i = s.i + 1, !.state = st, !.fields = fs, !.field_buffer = buf,
              !.line_no = LineAfterChar(c, s.line_no)]

StepFieldStart(s, t) ==
    LET c == t[s.i] IN
    IF c = QUOTE THEN InRecord(s, c, "IN_QUOTED", s.fields, s.field_buffer)
    ELSE IF c = DELIM THEN InRecord(s, c, s.state, Append(s.fields, <<>>), s.field_buffer)
    ELSE IF is_line_terminator(c) THEN EndOfRecord(s, t, c)
    ELSE InRecord(s, c, "IN_UNQUOTED", s.fields, Append(s.field_buffer, c))

StepInUnquoted(s, t) ==
    LET c == t[s.i] IN
    IF c = DELIM THEN InRecord(s, c, "FIELD_START", Append(s.fields, s.field_buffer), <<>>)
    ELSE IF is_line_terminator(c) THEN EndOfRecord(s, t, c)
    ELSE InRecord(s, c, s.state, s.fields, Append(s.field_buffer, c))

\* A quoted state in which a line terminator ends the record
StepInQuotedBreaking(s, t) ==
    LET c == t[s.i] IN
    IF c = QUOTE THEN InRecord(s, c, "QUOTE_IN_QUOTED", s.fields, s.field_buffer)
    ELSE IF is_line_terminator(c) THEN EndOfRecord(s, t, c)
    ELSE InRecord(s, c, s.state, s.fields, Append(s.field_buffer, c))

\* The IN_QUOTED branch: every character but the quote is field data
StepInQuoted(s, t) ==
    LET c == t[s.i] IN
    IF c = QUOTE THEN InRecord(s, c, "QUOTE_IN_QUOTED", s.fields, s.field_buffer)
    ELSE InRecord(s, c, s.state, s.fields, Append(s.field_buffer, c))

StepQuoteInQuoted(s, t) ==
    LET c == t[s.i] IN
    IF c = QUOTE THEN InRecord(s, c, "IN_QUOTED", s.fields, Append(s.field_buffer, QUOTE))
    ELSE IF c = DELIM
    THEN InRecord(s, c, "FIELD_START", Append(s.fields, s.field_buffer), <<>>)
    ELSE IF is_line_terminator(c) THEN EndOfRecord(s, t, c)
    ELSE InRecord(s, c, "IN_UNQUOTED", s.fields, Append(s.field_buffer, c))

\* "Handle final record if not empty", after the loop: the records yielded
FinalRecords(s) ==
    LET fs == Append(s.fields, s.field_buffer) IN
    IF (s.field_buffer # <<>> \/ s.fields # <<>>) /\ AnyField(fs)
    THEN Append(s.records, [fields |-> fs,
                            start_line |-> s.record_start_line,
                            end_line |-> s.line_no])
    ELSE s.records

\* tokenize_stream as a function of the text: all the records it yields
RECURSIVE TokRun(_, _)
TokRun(s, t) ==
    IF s.i > Len(t) THEN FinalRecords(s)
    ELSE TokRun(CASE s.state = "FIELD_START" -> StepFieldStart(s, t)
                  [] s.state = "IN_UNQUOTED" -> StepInUnquoted(s, t)
                  [] s.state = "IN_QUOTED" -> StepInQuoted(s, t)
                  [] s.state = "QUOTE_IN_QUOTED" -> StepQuoteInQuoted(s, t), t)

tokenize_stream(t) == TokRun(TokStart, t)

TokFieldStart ==
    /\ tok_pc = "scan" /\ tok.i <= Len(text) /\ tok.state = "FIELD_START"
    /\ tok' = StepFieldStart(tok, text)
    /\ UNCHANGED <<text, tok_pc, lt, lt_pc>>
    /\ UNCHANGED notTok

TokInUnquoted ==
    /\ tok_pc = "scan" /\ tok.i <= Len(text) /\ tok.state = "IN_UNQUOTED"
    /\ tok' = StepInUnquoted(tok, text)
    /\ UNCHANGED <<text, tok_pc, lt, lt_pc>>
    /\ UNCHANGED notTok

TokInQuoted ==
    /\ tok_pc = "scan" /\ tok.i <= Len(text) /\ tok.state = "IN_QUOTED"
    /\ tok' = StepInQuoted(tok, text)
    /\ UNCHANGED <<text, tok_pc, lt, lt_pc>>
    /\ UNCHANGED notTok

TokQuoteInQuoted ==
    /\ tok_pc = "scan" /\ tok.i <= Len(text) /\ tok.state = "QUOTE_IN_QUOTED"
    /\ tok' = StepQuoteInQuoted(tok, text)
    /\ UNCHANGED <<text, tok_pc, lt, lt_pc>>
    /\ UNCHANGED notTok

\* The loop has ended: the final record is yielded and the generator returns
TokFinish ==
    /\ tok_pc = "scan" /\ tok.i > Len(text)
    /\ tok' = [tok EXCEPT !.records = FinalRecords(tok)]
    /\ tok_pc' = "done"
    /\ UNCHANGED <<text, lt, lt_pc>>
    /\ UNCHANGED notTok

\* The locals of tokenize_line before the first character
LineStart == [i |-> 1, state |-> "FIELD_START", fields |-> <<>>, field_buffer |-> <<>>]

\* One pass of the loop of tokenize_line: the new state, fields and buffer
LineMove(s, st, fs, buf) ==
    [i |-> s.i + 1, state |-> st, fields |-> fs, field_buffer |-> buf]

\* A QUOTE_IN_QUOTED branch of tokenize_line that drops the escaped quote
LineStepQuoteInQuotedDropping(s, l) ==
    LET c == l[s.i] IN
    IF c = QUOTE THEN LineMove(s, "IN_QUOTED", s.fields, s.field_buffer)
    ELSE IF c = DELIM
    THEN LineMove(s, "FIELD_START", Append(s.fields, s.field_buffer), <<>>)
    ELSE LineMove(s, "IN_UNQUOTED", s.fields, Append(s.field_buffer, c))

LineStepFieldStart(s, l) ==
    LET c == l[s.i] IN
    IF c = QUOTE THEN LineMove(s, "IN_QUOTED", s.fields, s.field_buffer)
    ELSE IF c = DELIM THEN LineMove(s, s.state, Append(s.fields, <<>>), s.field_buffer)
    ELSE LineMove(s, "IN_UNQUOTED", s.fields, Append(s.field_buffer, c))

LineStepInUnquoted(s, l) ==
    LET c == l[s.i] IN
    IF c = DELIM THEN LineMove(s, "FIELD_START", Append(s.fields, s.field_buffer), <<>>)
    ELSE LineMove(s, s.state, s.fields, Append(s.field_buffer, c))

LineStepInQuoted(s, l) ==
    LET c == l[s.i] IN
    IF c = QUOTE THEN LineMove(s, "QUOTE_IN_QUOTED", s.fields, s.field_buffer)
    ELSE LineMove(s, s.state, s.fields, Append(s.field_buffer, c))

LineStepQuoteInQuoted(s, l) ==
    LET c == l[s.i] IN
    IF c = QUOTE THEN LineMove(s, "IN_QUOTED", s.fields, Append(s.field_buffer, QUOTE))
    ELSE IF c = DELIM
    THEN LineMove(s, "FIELD_START", Append(s.fields, s.field_buffer), <<>>)
    ELSE LineMove(s, "IN_UNQUOTED", s.fields, Append(s.field_buffer, c))

\* "Handle final field": the buffer is appended in every state
LineFields(s) == Append(s.fields, s.field_buffer)

\* tokenize_line runs on the text once tokenize_stream has returned
LineFieldStart ==
    /\ tok_pc = "done" /\ lt_pc = "scan" /\ lt.i <= Len(text) /\ lt.state = "FIELD_START"
    /\ lt' = LineStepFieldStart(lt, text)
    /\ UNCHANGED <<text, tok, tok_pc, lt_pc>>
    /\ UNCHANGED notTok

LineInUnquoted ==
    /\ tok_pc = "done" /\ lt_pc = "scan" /\ lt.i <= Len(text) /\ lt.state = "IN_UNQUOTED"
    /\ lt' = LineStepInUnquoted(lt, text)
    /\ UNCHANGED <<text, tok, tok_pc, lt_pc>>
    /\ UNCHANGED notTok

LineInQuoted ==
    /\ tok_pc = "done" /\ lt_pc = "scan" /\ lt.i <= Len(text) /\ lt.state = "IN_QUOTED"
    /\ lt' = LineStepInQuoted(lt, text)
    /\ UNCHANGED <<text, tok, tok_pc, lt_pc>>
    /\ UNCHANGED notTok

LineQuoteInQuoted ==
    /\ tok_pc = "done" /\ lt_pc = "scan" /\ lt.i <= Len(text) /\ lt.state = "QUOTE_IN_QUOTED"
    /\ lt' = LineStepQuoteInQuoted(lt, text)
    /\ UNCHANGED <<text, tok, tok_pc, lt_pc>>
    /\ UNCHANGED notTok

\* The loop of tokenize_line has ended: the last field is added and the
\* list is returned
LineFinish ==
    /\ tok_pc = "done" /\ lt_pc = "scan" /\ lt.i > Len(text)
    /\ lt' = [lt EXCEPT !.fields = LineFields(lt), !.field_buffer = <<>>]
    /\ lt_pc' = "done"
    /\ UNCHANGED <<text, tok, tok_pc>>
    /\ UNCHANGED notTok

LineStep == LineFieldStart \/ LineInUnquoted \/ LineInQuoted \/ LineQuoteInQuoted \/ LineFinish

TokStep == TokFieldStart \/ TokInUnquoted \/ TokInQuoted \/ TokQuoteInQuoted \/ TokFinish

TokInit ==
    /\ text \in SeqsUpTo(Chars, MaxTextLen)
    /\ tok = TokStart
    /\ tok_pc = "scan"
    /\ lt = LineStart
    /\ lt_pc = "scan"

TokIdle ==
    /\ text = <<>>
    /\ tok = TokStart
    /\ tok_pc = "idle"
    /\ lt = LineStart
    /\ lt_pc = "idle"

TokNext == TokStep \/ LineStep

-----------------------------------------------------------------------------
(* Bytes and encodings.  File bytes are a byte-order mark (or none) and    *)
(* the encoded characters; a UTF-16 mark also fixes the byte order of the  *)
(* characters that follow it.                                              *)

NoBom == "none"
Utf8Bom == "EFBBBF"
Utf16LeBom == "FFFE"
Utf16BeBom == "FEFF"
Boms == {NoBom, Utf8Bom, Utf16LeBom, Utf16BeBom}

\* The result of a call that raised an exception: as a string, as a token
\* list, as bytes.  NoBytes stands for "no bytes yet".
RAISED == <<"<exception>">>
RaisedTokens == <<RAISED>>
RaisedBytes == [bom |-> "<exception>", chars |-> <<>>]
NoBytes == [bom |-> "<unset>", chars |-> <<>>]

\* detect_encoding: BOM checks first, otherwise UTF-8 for the ASCII texts here
detect_encoding(data) ==
    IF data.bom = Utf8Bom THEN "utf-8-sig"
    ELSE IF data.bom \in {Utf16LeBom, Utf16BeBom} THEN "utf-16"
    ELSE "utf-8"

\* original_bytes.decode(parse_result.encoding): the codec consumes its own mark
Decode(data, enc) == data.chars

\* result.encode(parse_result.encoding): "utf-8-sig" writes the UTF-8 mark,
\* "utf-16" writes the mark and byte order of the platform (little-endian)
Encode(chars, enc) ==
    [bom |-> IF enc = "utf-8-sig" THEN Utf8Bom
             ELSE IF enc = "utf-16" THEN Utf16LeBom
             ELSE NoBom,
     chars |-> chars]

-----------------------------------------------------------------------------
(* String helpers of the writer                                            *)

RECURSIVE Concat(_)
Concat(ss) == IF ss = <<>> THEN <<>> ELSE Head(ss) \o Concat(Tail(ss))

\* ";".join(tokens)
RECURSIVE JoinDelim(_)
JoinDelim(toks) ==
    IF toks = <<>> THEN <<>>
    ELSE IF Len(toks) = 1 THEN toks[1]
    ELSE toks[1] \o <<DELIM>> \o JoinDelim(Tail(toks))

\* value.replace('"', '""')
RECURSIVE DoubleQuotes(_)
DoubleQuotes(s) ==
    IF s = <<>> THEN <<>>
    ELSE IF Head(s) = QUOTE THEN <<QUOTE, QUOTE>> \o DoubleQuotes(Tail(s))
    ELSE <<Head(s)>> \o DoubleQuotes(Tail(s))

\* value.replace('""', '"'), left to right, not overlapping
RECURSIVE UndoubleQuotes(_)
UndoubleQuotes(s) ==
    IF s = <<>> THEN <<>>
    ELSE IF Len(s) >= 2 /\ s[1] = QUOTE /\ s[2] = QUOTE
         THEN <<QUOTE>> \o UndoubleQuotes(SubSeq(s, 3, Len(s)))
    ELSE <<Head(s)>> \o UndoubleQuotes(Tail(s))

\* str.upper on the characters of the model
UpperChar(c) == IF c = "a" THEN "A" ELSE IF c = "b" THEN "B" ELSE c
Upper(s) == [k \in 1..Len(s) |-> UpperChar(s[k])]

-----------------------------------------------------------------------------
(* PreserveWriter                                                          *)

\* PreserveWriter._split_lines: (content, ending) pairs, endings kept per line
RECURSIVE SplitFrom(_, _, _)
SplitFrom(t, k, start) ==
    IF k > Len(t)
    THEN IF start <= Len(t)
         THEN <<[content |-> SubSeq(t, start, Len(t)), ending |-> <<>>]>>
         ELSE <<>>
    ELSE IF t[k] = CR
    THEN IF k + 1 <= Len(t) /\ t[k + 1] = LF
         THEN <<[content |-> SubSeq(t, start, k - 1), ending |-> <<CR, LF>>]>>
              \o SplitFrom(t, k + 2, k + 2)
         ELSE <<[content |-> SubSeq(t, start, k - 1), ending |-> <<CR>>]>>
              \o SplitFrom(t, k + 1, k + 1)
    ELSE IF t[k] = LF
    THEN <<[content |-> SubSeq(t, start, k - 1), ending |-> <<LF>>]>>
         \o SplitFrom(t, k + 1, k + 1)
    ELSE SplitFrom(t, k + 1, start)

split_lines(t) == SplitFrom(t, 1, 1)

\* PreserveWriter._tokenize_csv_line: split at delimiters outside quotes,
\* the quotes stay in the tokens
RECURSIVE CsvFrom(_, _, _, _, _)
CsvFrom(line, k, tokens, current, in_quotes) ==
    IF k > Len(line) THEN Append(tokens, current)
    ELSE LET c == line[k] IN
         IF c = QUOTE
         THEN IF in_quotes
              THEN IF k + 1 <= Len(line) /\ line[k + 1] = QUOTE
                   THEN CsvFrom(line, k + 2, tokens, current \o <<QUOTE, QUOTE>>, in_quotes)
                   ELSE CsvFrom(line, k + 1, tokens, Append(current, c), FALSE)
              ELSE CsvFrom(line, k + 1, tokens, Append(current, c), TRUE)
         ELSE IF c = DELIM /\ ~in_quotes
         THEN CsvFrom(line, k + 1, Append(tokens, current), <<>>, in_quotes)
         ELSE CsvFrom(line, k + 1, tokens, Append(current, c), in_quotes)

tokenize_csv_line(line) == CsvFrom(line, 1, <<>>, <<>>, FALSE)

\* parse_result.columns: the canonical ids of the columns, in column order
Columns == <<"f0", "f1">>

\* ColumnMappings.get_index (0-based); -1 stands for None (unmapped field)
get_index(field) ==
    IF \E k \in 1..Len(Columns) : Columns[k] = field
    THEN (CHOOSE k \in 1..Len(Columns) :
            Columns[k] = field /\ \A j \in 1..(k - 1) : Columns[j] # field) - 1
    ELSE -1

\* The marker DeleteRowOperation returns
DeleteMarker == <<"\\x00", "D", "E", "L", "E", "T", "E", "\\x00">>

\* NormalizeDecimalOperation.apply: a number is written with a comma and two
\* decimals, any other value is returned as it is.  "1.5" is the one number
\* among the values used here.
NormalizeDecimal(value) == IF value = <<"1.5">> THEN <<"1,50">> ELSE value

\* OperationRegistry.apply with params = {"new_value": patch.new_value} and a
\* context that holds only the field name: truncate finds no max_length and
\* sanitize_chars no pattern, split_file is not registered (ValueError)
OperationApply(operation, value, new_value) ==
    CASE operation = "set_field" -> new_value
      [] operation = "normalize_decimal" -> NormalizeDecimal(value)
      [] operation = "upper" -> Upper(value)
      [] operation = "truncate" -> value
      [] operation = "sanitize_chars" -> value
      [] operation = "delete_row" -> DeleteMarker
      [] OTHER -> RAISED

\* original_token.startswith('"') and original_token.endswith('"')
WasQuoted(token) == Len(token) >= 1 /\ token[1] = QUOTE /\ token[Len(token)] = QUOTE

\* One pass of the patch loop of _apply_patches_to_line: the new token list
PatchTokens(tokens, patch) ==
    LET col_idx == get_index(patch.field) IN
    IF col_idx = -1 THEN tokens
    ELSE IF col_idx >= Len(tokens) THEN tokens
    ELSE LET original_token == tokens[col_idx + 1]
             was_quoted == WasQuoted(original_token)
             original_value == IF was_quoted
                               THEN UndoubleQuotes(SubSeq(original_token, 2,
                                                          Len(original_token) - 1))
                               ELSE original_token
             new_value == OperationApply(patch.operation, original_value, patch.new_value)
         IN  IF new_value = RAISED THEN RaisedTokens
             ELSE [tokens EXCEPT ![col_idx + 1] =
                      IF was_quoted THEN <<QUOTE>> \o DoubleQuotes(new_value) \o <<QUOTE>>
                      ELSE new_value]

RECURSIVE PatchAll(_, _)
PatchAll(tokens, patches) ==
    IF patches = <<>> \/ tokens = RaisedTokens THEN tokens
    ELSE PatchAll(PatchTokens(tokens, Head(patches)), Tail(patches))

\* PreserveWriter._apply_patches_to_line
apply_patches_to_line(line, patches) ==
    LET tokens == PatchAll(tokenize_csv_line(line), patches)
    IN  IF tokens = RaisedTokens THEN RAISED ELSE JoinDelim(tokens)

\* patches_by_row[row_no], in plan order
PatchesForRow(patches, row_no) == SelectSeq(patches, LAMBDA p : p.row_no = row_no)

\* The loop over patches_by_row: line index row_no - 1 (0-based) is patched,
\* rows beyond the last line are skipped
PatchedLines(lines, patches) ==
    [k \in 1..Len(lines) |->
        IF PatchesForRow(patches, k) = <<>> THEN lines[k]
        ELSE [content |-> apply_patches_to_line(lines[k].content, PatchesForRow(patches, k)),
              ending |-> lines[k].ending]]

\* "".join(content + ending for content, ending in lines)
JoinLines(lines) == Concat([k \in 1..Len(lines) |-> lines[k].content \o lines[k].ending])

\* PreserveWriter.write: the bytes it returns, or RAISED
PreserveWrite(data, enc, patches) ==
    LET lines == PatchedLines(split_lines(Decode(data, enc)), patches)
    IN  IF \E k \in 1..Len(lines) : lines[k].content = RAISED THEN RaisedBytes
        ELSE Encode(JoinLines(lines), enc)

-----------------------------------------------------------------------------
(* parse_bytes, as far as the writers read its result                      *)

\* "not tokens or not any(t.strip() for t in tokens)": a record of blanks only
RECURSIVE IsBlank(_)
IsBlank(s) == s = <<>> \/ (Head(s) \in {" ", CR, LF} /\ IsBlank(Tail(s)))

SkippedRow(tokens) == \A k \in 1..Len(tokens) : IsBlank(tokens[k])

\* row_factory: the records after the header and the column record, numbered
\* from 3; a blank record is skipped but takes a number
DataRows(recs) ==
    LET numbered == [k \in 1..(Len(recs) - 2) |->
                        [row_no |-> k + 2, raw_tokens |-> recs[k + 2].fields]]
    IN  SelectSeq(numbered, LAMBDA r : ~SkippedRow(r.raw_tokens))

\* parse_bytes for a file with a valid header: what the writers use of the
\* ParseResult (encoding, header.raw_tokens, columns.raw_labels, rows)
ParseResultOf(data) ==
    LET enc == detect_encoding(data)
        recs == tokenize_stream(Decode(data, enc))
    IN  [encoding |-> enc,
         header_tokens |-> recs[1].fields,
         raw_labels |-> recs[2].fields,
         rows |-> DataRows(recs)]

-----------------------------------------------------------------------------
(* CanonicalWriter                                                         *)

\* CanonicalWriter._quote_all for one token: strip surrounding quotes, re-quote
QuoteToken(token) ==
    LET value == IF WasQuoted(token)
                 THEN UndoubleQuotes(SubSeq(token, 2, Len(token) - 1))
                 ELSE token
    IN  <<QUOTE>> \o DoubleQuotes(value) \o <<QUOTE>>

quote_all(tokens) == [k \in 1..Len(tokens) |-> QuoteToken(tokens[k])]

\* The patch loop of CanonicalWriter.write for one row
CanonPatchTokens(tokens, patch) ==
    LET col_idx == get_index(patch.field) IN
    IF col_idx = -1 \/ col_idx >= Len(tokens) THEN tokens
    ELSE LET v == OperationApply(patch.operation, tokens[col_idx + 1], patch.new_value)
         IN  IF v = RAISED THEN RaisedTokens ELSE [tokens EXCEPT ![col_idx + 1] = v]

RECURSIVE CanonPatchAll(_, _)
CanonPatchAll(tokens, patches) ==
    IF patches = <<>> \/ tokens = RaisedTokens THEN tokens
    ELSE CanonPatchAll(CanonPatchTokens(tokens, Head(patches)), Tail(patches))

\* CanonicalWriter.write: header, column labels, then every row with its
\* patches applied, all tokens quoted, CRLF after every line, windows-1252
CanonicalWrite(parse, patches) ==
    LET rowTokens == [k \in 1..Len(parse.rows) |->
                        CanonPatchAll(parse.rows[k].raw_tokens,
                                      PatchesForRow(patches, parse.rows[k].row_no))]
        lines == <<JoinDelim(quote_all(parse.header_tokens)),
                   JoinDelim(quote_all(parse.raw_labels))>>
                 \o [k \in 1..Len(rowTokens) |-> JoinDelim(quote_all(rowTokens[k]))]
    IN  IF \E k \in 1..Len(rowTokens) : rowTokens[k] = RaisedTokens THEN RaisedBytes
        ELSE Encode(Concat([k \in 1..Len(lines) |-> lines[k] \o <<CR, LF>>]),
                    "windows-1252")

-----------------------------------------------------------------------------
(* Risk gate (core/fix/risk.py)                                            *)

RiskLevels == {"low", "medium", "high"}

\* risk_order, with the default 1 of risk_order.get
risk_order(level) ==
    CASE level = "low" -> 0
      [] level = "medium" -> 1
      [] level = "high" -> 2
      [] OTHER -> 1

\* A gate that lets every patch through
should_apply_all(patch, ceiling) == TRUE

\* A gate that accepts only risks strictly below the ceiling
should_apply_below(patch, ceiling) ==
    IF patch.requires_approval /\ ceiling # "high" THEN FALSE
    ELSE risk_order(patch.risk) < risk_order(ceiling)

should_apply(patch, ceiling) ==
    IF patch.requires_approval /\ ceiling # "high" THEN FALSE
    ELSE risk_order(patch.risk) <= risk_order(ceiling)

\* filter_by_risk on the patches of the plan
filter_by_risk(patches, ceiling) ==
    SelectSeq(patches, LAMBDA p : should_apply(p, ceiling))

-----------------------------------------------------------------------------
(* The preserve writer applied to every small file                         *)

\* Bound: longest file text handed to the preserve writer.
MaxFileLen == 5

FileChars == {"a", DELIM, QUOTE, CR, LF}

\* Patches of row 3 (the first data row) on a mapped column
WrPatch ==
    [row_no : {3}, field : {"f0", "f1"},
     operation : {"set_field", "upper", "split_file"}, new_value : {<<"b">>}]
    \cup [row_no : {3}, field : {"f0", "f1"}, operation : {"set_field"},
          new_value : {<<DELIM>>, <<QUOTE>>, <<LF>>}]
    \cup [row_no : {3}, field : {"f0", "f1"}, operation : {"upper"},
          new_value : {<<"A">>}]
    \cup [row_no : {3}, field : {"f0", "f1"}, operation : {"truncate"},
          new_value : {<<"a">>}]
    \cup [row_no : {3}, field : {"f0", "f1"}, operation : {"delete_row"},
          new_value : {<<>>}]
    \cup [row_no : {3}, field : {"f0", "f1"}, operation : {"normalize_decimal"},
          new_value : {<<"1,50">>}]

WrPlans == {<<>>} \cup {<<p>> : p \in WrPatch}

\* Longer files with a data row: three plain lines; a longer, a quoted and a
\* numeric first field; a first field whose value is "a" with its quotes; an empty line before the data row; a header whose quoted field
\* holds a line break
WrLongFiles ==
    {<<"a", LF, "a", LF, "a", DELIM, "a">>,
     <<"a", LF, "a", LF, "a", "a", DELIM, "a">>,
     <<"a", LF, "a", LF, QUOTE, "a", QUOTE, DELIM, "a">>,
     <<"a", LF, "a", LF, "1.5", DELIM, "a">>,
     <<"a", LF, "a", LF, QUOTE, QUOTE, QUOTE, "a", QUOTE, QUOTE, QUOTE, DELIM, "a">>,
     <<"a", LF, "a", LF, LF, "a", DELIM, "a">>,
     <<QUOTE, "a", LF, "a", QUOTE, LF, "a", LF, "a", DELIM, "a">>}

WrInit ==
    /\ original_bytes \in [bom : Boms, chars : SeqsUpTo(FileChars, MaxFileLen)]
                             \cup [bom : {NoBom}, chars : WrLongFiles]
    /\ encoding = detect_encoding(original_bytes)
    /\ wr_patches = <<>>
    /\ result_bytes = NoBytes
    /\ wr_pc = "start"

WrIdle ==
    /\ original_bytes = [bom |-> NoBom, chars |-> <<>>]
    /\ encoding = "utf-8" /\ wr_patches = <<>> /\ result_bytes = NoBytes /\ wr_pc = "idle"

\* PreserveWriter.write(plan, parse_result, output_path)
PreserveWriterWrite ==
    /\ wr_pc = "start"
    /\ \E patches \in WrPlans :
         /\ wr_patches' = patches
         /\ result_bytes' = PreserveWrite(original_bytes, encoding, patches)
    /\ wr_pc' = "written"
    /\ UNCHANGED <<original_bytes, encoding>>
    /\ UNCHANGED notWr

\* CanonicalWriter.write(plan, parse_result, output_path) with the parse
\* result of the file; a file without a column line has no parse result to
\* write from
CanonicalWriterWrite ==
    /\ wr_pc = "start"
    /\ Len(tokenize_stream(Decode(original_bytes, encoding))) >= 2
    /\ \E patches \in WrPlans :
         /\ wr_patches' = patches
         /\ result_bytes' = CanonicalWrite(ParseResultOf(original_bytes), patches)
    /\ wr_pc' = "canonical"
    /\ UNCHANGED <<original_bytes, encoding>>
    /\ UNCHANGED notWr

WrNext == PreserveWriterWrite \/ CanonicalWriterWrite

-----------------------------------------------------------------------------
(* should_apply called on one patch                                        *)

PatchOperations == {"set_field", "normalize_decimal", "truncate",
                    "sanitize_chars", "upper", "delete_row", "split_file"}

RkPatch == [operation : PatchOperations, risk : RiskLevels,
            requires_approval : BOOLEAN]

RkInit ==
    /\ rk_patch \in RkPatch
    /\ rk_accept \in RiskLevels
    /\ rk_result = FALSE
    /\ rk_pc = "call"

RkIdle ==
    /\ rk_patch = [operation |-> "set_field", risk |-> "low",
                   requires_approval |-> FALSE]
    /\ rk_accept = "low"
    /\ rk_result = FALSE
    /\ rk_pc = "idle"

ShouldApply ==
    /\ rk_pc = "call"
    /\ rk_result' = should_apply(rk_patch, rk_accept)
    /\ rk_pc' = "returned"
    /\ UNCHANGED <<rk_patch, rk_accept>>
    /\ UNCHANGED notRk

RkNext == ShouldApply

-----------------------------------------------------------------------------
(* ConflictDetector (core/fix/conflicts.py).  A patch object is identified  *)
(* by its position in the input list: id(patch) is the position, and        *)
(* patch != other compares the field values of the two patches.             *)

Indices(n) == [k \in 1..n |-> k]

KeyOf(patch) == <<patch.row_no, patch.field>>

\* A grouping by row only
by_row(patches) ==
    LET firsts == SelectSeq(Indices(Len(patches)), LAMBDA i :
                      \A j \in 1..(i - 1) : patches[j].row_no # patches[i].row_no)
    IN  [k \in 1..Len(firsts) |->
            SelectSeq(Indices(Len(patches)), LAMBDA i :
                patches[i].row_no = patches[firsts[k]].row_no)]

\* by_location: the keys in order of first occurrence, each with the
\* positions of its patches in input order
by_location(patches) ==
    LET firsts == SelectSeq(Indices(Len(patches)), LAMBDA i :
                      \A j \in 1..(i - 1) : KeyOf(patches[j]) # KeyOf(patches[i]))
    IN  [k \in 1..Len(firsts) |->
            SelectSeq(Indices(Len(patches)), LAMBDA i :
                KeyOf(patches[i]) = KeyOf(patches[firsts[k]]))]

\* The strategy's choice within one group; 0 stands for None (manual)
Selected(patch_list, res) ==
    CASE res = "first_wins" -> patch_list[1]
      [] res = "last_wins" -> patch_list[Len(patch_list)]
      [] OTHER -> 0

\* ConflictDetector.detect
detect(patches, res) ==
    LET groups == SelectSeq(by_location(patches), LAMBDA g : Len(g) > 1)
    IN  [k \in 1..Len(groups) |->
            [row_no |-> patches[groups[k][1]].row_no,
             field |-> patches[groups[k][1]].field,
             patches |-> groups[k],
             resolution |-> res,
             selected_patch |-> Selected(groups[k], res)]]

\* The excluded set of ConflictDetector.resolve
Excluded(patches, cs) ==
    {i \in 1..Len(patches) : \E k \in 1..Len(cs) :
        /\ \E n \in 1..Len(cs[k].patches) : cs[k].patches[n] = i
        /\ cs[k].selected_patch # 0 =>
              patches[i] # patches[cs[k].selected_patch]}

\* ConflictDetector.resolve
resolve(patches, cs) ==
    SelectSeq(Indices(Len(patches)), LAMBDA i : i \notin Excluded(patches, cs))

\* Bound: longest patch list handed to the detector.
MaxPatches == 4

CdPatch == [row_no : {3, 4}, field : {"f0", "f1"}, operation : {"upper", "truncate"}]

Resolutions == {"first_wins", "last_wins", "manual"}

CdInit ==
    /\ cd_patches \in SeqsUpTo(CdPatch, MaxPatches)
    /\ resolution \in Resolutions
    /\ conflicts = <<>>
    /\ resolved = <<>>
    /\ cd_pc = "detect"

CdIdle ==
    /\ cd_patches = <<>>
    /\ resolution = "first_wins"
    /\ conflicts = <<>>
    /\ resolved = <<>>
    /\ cd_pc = "idle"

ConflictDetectorDetect ==
    /\ cd_pc = "detect"
    /\ conflicts' = detect(cd_patches, resolution)
    /\ cd_pc' = "resolve"
    /\ UNCHANGED <<cd_patches, resolution, resolved>>
    /\ UNCHANGED notCd

ConflictDetectorResolve ==
    /\ cd_pc = "resolve"
    /\ resolved' = resolve(cd_patches, conflicts)
    /\ cd_pc' = "resolved"
    /\ UNCHANGED <<cd_patches, resolution, conflicts>>
    /\ UNCHANGED notCd

CdNext == ConflictDetectorDetect \/ ConflictDetectorResolve

-----------------------------------------------------------------------------
(* apply_fixes, write_file and rollback over a file system                  *)
(* (core/fix/__init__.py, writer.py, backup.py, audit.py)                   *)

\* compute_file_checksum / compute_bytes_checksum: SHA-256, taken as
\* collision-free; "" is the unset checksum
Checksum(data) == <<"sha256", data>>
NoChecksum == <<>>

\* The backup name for one timestamp: "<name>.bak.<ts>" for counter 0,
\* "<name>.bak.<ts>.<counter>" above
BackupName(counter) == <<"EXTF.csv.bak.ts", counter>>
NoPath == <<>>

\* The "while backup_path.exists()" loop of BackupManager.create_backup
UniqueBackupPath(bk) ==
    LET counter == CHOOSE n \in 0..Cardinality(DOMAIN bk) :
                       /\ BackupName(n) \notin DOMAIN bk
                       /\ \A m \in 0..(n - 1) : BackupName(m) \in DOMAIN bk
    IN  BackupName(counter)

\* A copy that writes nothing
NotCopied(bk, path, data) == bk

\* shutil.copy2(src, dst) that succeeded
Copied(bk, path, data) == [p \in DOMAIN bk \cup {path} |-> IF p = path THEN data ELSE bk[p]]

NoFile == NoBytes

WriteResult(success, path, old, new, m, fallback, applied, err) ==
    [success |-> success, backup_path |-> path, old_checksum |-> old,
     new_checksum |-> new, mode |-> m, fallback_used |-> fallback,
     patches_applied |-> applied, error |-> err]

NoResult == WriteResult(FALSE, NoPath, NoChecksum, NoChecksum, "none", FALSE, 0, "unset")

RollbackResult(success, path, old, restored, expected, match, err) ==
    [success |-> success, backup_path |-> path, old_checksum |-> old,
     restored_checksum |-> restored, expected_checksum |-> expected,
     checksums_match |-> match, error |-> err]

NoRollback == RollbackResult(FALSE, NoPath, NoChecksum, NoChecksum, NoChecksum, FALSE, "unset")

\* AuditPatchEntry: the fields log_fix copies from a patch
AuditPatchEntry(patch) ==
    [row_no |-> patch.row_no, field |-> patch.field, operation |-> patch.operation,
     new_value |-> patch.new_value, risk |-> patch.risk]

\* The AuditEntry built by AuditLogger.log_fix
AuditEntry(id, patches, res) ==
    [run_id |-> id,
     file_checksum_before |-> res.old_checksum,
     file_checksum_after |-> res.new_checksum,
     backup_path |-> res.backup_path,
     patches |-> [k \in 1..Len(patches) |-> AuditPatchEntry(patches[k])],
     write_mode |-> res.mode,
     rolled_back |-> FALSE]

NoEntry == [run_id |-> None]

\* A file with header, column labels f0;f1 and one data row, CRLF line ends
FileA == [bom |-> NoBom,
          chars |-> <<"EXTF", CR, LF, "f0", DELIM, "f1", CR, LF,
                      "a", DELIM, QUOTE, "a", QUOTE, CR, LF>>]

\* The same file after somebody else changed the data row
FileB == [FileA EXCEPT !.chars[9] = "b"]

\* A backup left by an earlier run under the name of this run's timestamp
OldBackup == [bom |-> NoBom, chars |-> <<"old">>]

\* Bound: longest patch list of a plan handed to apply_fixes.
MaxPlanLen == 2

FxPatch ==
    {[row_no |-> 3, field |-> "f0", operation |-> "set_field", new_value |-> <<"b">>,
      risk |-> "low", requires_approval |-> FALSE],
     [row_no |-> 3, field |-> "f1", operation |-> "upper", new_value |-> <<>>,
      risk |-> "medium", requires_approval |-> FALSE],
     [row_no |-> 3, field |-> "f0", operation |-> "split_file", new_value |-> <<>>,
      risk |-> "medium", requires_approval |-> FALSE],
     [row_no |-> 3, field |-> "f1", operation |-> "set_field", new_value |-> <<"b">>,
      risk |-> "low", requires_approval |-> TRUE],
     [row_no |-> 3, field |-> "f0", operation |-> "delete_row", new_value |-> <<>>,
      risk |-> "high", requires_approval |-> TRUE]}

RunId == "run-1"

FxInit ==
    /\ target \in {FileA, FileB}
    /\ pre_bytes = target
    /\ backups \in {<<>>, Copied(<<>>, BackupName(0), OldBackup)}
    /\ temp = NoFile
    /\ fd_open = FALSE
    /\ audit = <<>>
    /\ \E patches \in SeqsUpTo(FxPatch, MaxPlanLen) :
         plan = [file_checksum |-> Checksum(FileA), patches |-> patches]
    /\ parse_result = ParseResultOf(FileA)
    /\ mode \in {"preserve", "canonical"}
    /\ create_backup \in BOOLEAN
    /\ accept_risk \in RiskLevels
    /\ accepted_patches = <<>>
    /\ backup_path = NoPath
    /\ content = NoFile
    /\ fallback_used = FALSE
    /\ result = NoResult
    /\ audit_entry = NoEntry
    /\ fx_pc = "apply_fixes"
    /\ fault = "none"
    /\ rb_run_id = None
    /\ rb_result = NoRollback
    /\ rb_pc = "idle"

FxIdle ==
    /\ target = NoFile
    /\ pre_bytes = NoFile
    /\ backups = <<>>
    /\ temp = NoFile
    /\ fd_open = FALSE
    /\ audit = <<>>
    /\ plan = [file_checksum |-> NoChecksum, patches |-> <<>>]
    /\ parse_result = None
    /\ mode = "preserve"
    /\ create_backup = FALSE
    /\ accept_risk = "low"
    /\ accepted_patches = <<>>
    /\ backup_path = NoPath
    /\ content = NoFile
    /\ fallback_used = FALSE
    /\ result = NoResult
    /\ audit_entry = NoEntry
    /\ fx_pc = "idle"
    /\ fault = "none"
    /\ rb_run_id = None
    /\ rb_result = NoRollback
    /\ rb_pc = "idle"

\* apply_fixes up to the call of write_file: the risk gate, then
\* BackupManager().create_backup(file_path), whose copy may fail and raise
ApplyFixes ==
    /\ fx_pc = "apply_fixes"
    /\ accepted_patches' = filter_by_risk(plan.patches, accept_risk)
    /\ IF create_backup
       THEN \E copied \in BOOLEAN :
              IF copied
              THEN /\ backup_path' = UniqueBackupPath(backups)
                   /\ backups' = Copied(backups, UniqueBackupPath(backups), target)
                   /\ fx_pc' = "write_file"
                   /\ UNCHANGED fault
              ELSE /\ fx_pc' = "raised"
                   /\ fault' = "create_backup"
                   /\ UNCHANGED <<backup_path, backups>>
       ELSE /\ fx_pc' = "write_file"
            /\ UNCHANGED <<backup_path, backups, fault>>
    /\ UNCHANGED <<target, pre_bytes, temp, fd_open, audit, plan, parse_result, mode,
                   create_backup, accept_risk, content, fallback_used, result,
                   audit_entry, rb_run_id, rb_result, rb_pc>>
    /\ UNCHANGED notFx

\* write_file: "if backup_path is not None: shutil.copy2(original_path,
\* backup_path)", outside any try
WriteFileBackup ==
    /\ fx_pc = "write_file"
    /\ IF backup_path # NoPath
       THEN \E copied \in BOOLEAN :
              IF copied
              THEN /\ backups' = Copied(backups, backup_path, target)
                   /\ fx_pc' = "writer"
                   /\ UNCHANGED fault
              ELSE /\ fx_pc' = "raised"
                   /\ fault' = "copy2"
                   /\ UNCHANGED backups
       ELSE /\ fx_pc' = "writer"
            /\ UNCHANGED <<backups, fault>>
    /\ UNCHANGED <<target, pre_bytes, temp, fd_open, audit, plan, parse_result, mode,
                   create_backup, accept_risk, accepted_patches, backup_path, content,
                   fallback_used, result, audit_entry, rb_run_id, rb_result, rb_pc>>
    /\ UNCHANGED notFx

\* A failure result that reports the requested mode
FailureRequestedMode(new_checksum) ==
    WriteResult(FALSE, backup_path, plan.file_checksum, new_checksum,
                mode, fallback_used, 0, "error")

\* The WriteResult of a failed write_file
Failure(new_checksum) ==
    WriteResult(FALSE, backup_path, plan.file_checksum, new_checksum,
                IF fallback_used THEN "canonical" ELSE mode, fallback_used, 0, "error")

\* write_file: writer.write(...) in its try; a preserve failure falls back to
\* the canonical writer inside the except clause, a canonical failure returns
WriterWrite ==
    /\ fx_pc = "writer"
    /\ \E readable \in BOOLEAN :
         LET first == IF mode = "canonical"
                      THEN CanonicalWrite(parse_result, accepted_patches)
                      ELSE IF readable
                           THEN PreserveWrite(target, parse_result.encoding, accepted_patches)
                           ELSE RaisedBytes
             second == CanonicalWrite(parse_result, accepted_patches)
         IN  /\ mode = "canonical" => readable
             /\ IF first # RaisedBytes
                THEN /\ content' = first
                     /\ fx_pc' = "mkstemp"
                     /\ UNCHANGED <<fallback_used, result, fault>>
                ELSE IF mode = "canonical"
                THEN /\ result' = WriteResult(FALSE, backup_path, plan.file_checksum,
                                              NoChecksum, mode, FALSE, 0, "error")
                     /\ fx_pc' = "log_fix"
                     /\ fault' = "writer"
                     /\ UNCHANGED <<content, fallback_used>>
                ELSE IF second # RaisedBytes
                THEN /\ content' = second
                     /\ fallback_used' = TRUE
                     /\ fx_pc' = "mkstemp"
                     /\ fault' = "writer"
                     /\ UNCHANGED result
                ELSE /\ fallback_used' = TRUE
                     /\ fx_pc' = "raised"
                     /\ fault' = "fallback"
                     /\ UNCHANGED <<content, result>>
    /\ UNCHANGED <<target, pre_bytes, backups, temp, fd_open, audit, plan, parse_result,
                   mode, create_backup, accept_risk, accepted_patches, backup_path,
                   audit_entry, rb_run_id, rb_result, rb_pc>>
    /\ UNCHANGED notFx

\* tempfile.mkstemp in the directory of the target
Mkstemp ==
    /\ fx_pc = "mkstemp"
    /\ \E created \in BOOLEAN :
         IF created
         THEN /\ temp' = [bom |-> NoBom, chars |-> <<>>]
              /\ fd_open' = TRUE
              /\ fx_pc' = "os_write"
              /\ UNCHANGED <<result, fault>>
         ELSE /\ result' = Failure(Checksum(content))
              /\ fx_pc' = "log_fix"
              /\ fault' = "mkstemp"
              /\ UNCHANGED <<temp, fd_open>>
    /\ UNCHANGED <<target, pre_bytes, backups, audit, plan, parse_result, mode,
                   create_backup, accept_risk, accepted_patches, backup_path, content,
                   fallback_used, audit_entry, rb_run_id, rb_result, rb_pc>>
    /\ UNCHANGED notFx

\* The first n characters of a file's content
Prefix(data, n) == [data EXCEPT !.chars = SubSeq(data.chars, 1, n)]

\* os.write(fd, content): one write call, which stores the first n bytes and
\* returns n (the return value is not looked at), or raises.  On an exception
\* the handler unlinks the temporary file while fd is still open, which fails
\* (suppressed) where an open file cannot be removed.
OsWrite ==
    /\ fx_pc = "os_write"
    /\ \/ \E n \in 0..Len(content.chars) :
            /\ temp' = Prefix(content, n)
            /\ fx_pc' = "os_replace"
            /\ UNCHANGED <<result, fault>>
       \/ \E unlinked \in BOOLEAN :
            /\ temp' = IF unlinked THEN NoFile ELSE temp
            /\ result' = Failure(Checksum(content))
            /\ fx_pc' = "log_fix"
            /\ fault' = "os_write"
    /\ UNCHANGED <<target, pre_bytes, backups, fd_open, audit, plan, parse_result, mode,
                   create_backup, accept_risk, accepted_patches, backup_path, content,
                   fallback_used, audit_entry, rb_run_id, rb_result, rb_pc>>
    /\ UNCHANGED notFx

\* os.close(fd); os.replace(temp_path, output_path): the rename puts the
\* temporary file in place of the target, or raises and the handler unlinks
\* the temporary file; then write_file returns its WriteResult
OsReplace ==
    /\ fx_pc = "os_replace"
    /\ fd_open' = FALSE
    /\ temp' = NoFile
    /\ \E renamed \in BOOLEAN :
         IF renamed
         THEN /\ target' = temp
              /\ result' = WriteResult(TRUE, backup_path, plan.file_checksum,
                                       Checksum(content),
                                       IF fallback_used THEN "canonical" ELSE mode,
                                       fallback_used, Len(accepted_patches), None)
              /\ UNCHANGED fault
         ELSE /\ result' = Failure(Checksum(content))
              /\ fault' = "os_replace"
              /\ UNCHANGED target
    /\ fx_pc' = "log_fix"
    /\ UNCHANGED <<pre_bytes, backups, audit, plan, parse_result, mode, create_backup,
                   accept_risk, accepted_patches, backup_path, content, fallback_used,
                   audit_entry, rb_run_id, rb_result, rb_pc>>
    /\ UNCHANGED notFx

\* AuditLogger._write_entry that succeeded
Written(log, entry) ==
    [id \in DOMAIN log \cup {entry.run_id} |-> IF id = entry.run_id THEN entry ELSE log[id]]

\* apply_fixes after write_file: a successful result is logged by log_fix,
\* whose write of the entry may raise; then (result, audit_entry) is returned
LogFix ==
    /\ fx_pc = "log_fix"
    /\ IF result.success
       THEN \E written \in BOOLEAN :
              IF written
              THEN /\ audit_entry' = AuditEntry(RunId, accepted_patches, result)
                   /\ audit' = Written(audit, AuditEntry(RunId, accepted_patches, result))
                   /\ fx_pc' = "returned"
                   /\ UNCHANGED fault
              ELSE /\ fx_pc' = "raised"
                   /\ fault' = "log_fix"
                   /\ UNCHANGED <<audit, audit_entry>>
       ELSE /\ fx_pc' = "returned"
            /\ UNCHANGED <<audit, audit_entry, fault>>
    /\ UNCHANGED <<target, pre_bytes, backups, temp, fd_open, plan, parse_result, mode,
                   create_backup, accept_risk, accepted_patches, backup_path, content,
                   fallback_used, result, rb_run_id, rb_result, rb_pc>>
    /\ UNCHANGED notFx

\* A restore that copies the backup without comparing checksums
restore_backup_unverified(path, expected, copied) ==
    IF path \notin DOMAIN backups
    THEN RollbackResult(FALSE, path, NoChecksum, NoChecksum, expected, FALSE,
                        "Backup file not found")
    ELSE IF ~copied
    THEN RollbackResult(FALSE, path, Checksum(target), Checksum(backups[path]),
                        expected, FALSE, "error")
    ELSE RollbackResult(TRUE, path, Checksum(target), Checksum(backups[path]),
                        expected, TRUE, None)

\* BackupManager.restore_backup(backup_path, target_path, expected_checksum,
\* verify=True); copied says whether shutil.copy2 succeeds
restore_backup(path, expected, copied) ==
    IF path \notin DOMAIN backups
    THEN RollbackResult(FALSE, path, NoChecksum, NoChecksum, expected, FALSE,
                        "Backup file not found")
    ELSE IF expected # NoChecksum /\ Checksum(backups[path]) # expected
    THEN RollbackResult(FALSE, path, NoChecksum, Checksum(backups[path]), expected,
                        FALSE, "Backup checksum mismatch")
    ELSE IF ~copied
    THEN RollbackResult(FALSE, path, Checksum(target), Checksum(backups[path]),
                        IF expected # NoChecksum THEN expected
                        ELSE Checksum(backups[path]),
                        FALSE, "error")
    ELSE RollbackResult(TRUE, path, Checksum(target), Checksum(backups[path]),
                        IF expected # NoChecksum THEN expected
                        ELSE Checksum(backups[path]),
                        TRUE, None)

\* rollback(run_id): AuditLogger(audit_dir), get_entry, restore_backup, and
\* log_rollback on success; creating the audit directory, reading the entry
\* and rewriting it may raise
Rollback ==
    /\ fx_pc \in {"returned", "raised"}
    /\ rb_pc = "idle"
    /\ \E run_id \in {RunId, "run-2"},
          io \in {"ok", "mkdir", "get_entry", "copy2", "log_rollback"} :
         /\ rb_run_id' = run_id
         /\ IF io = "mkdir"
            THEN /\ rb_pc' = "raised"
                 /\ fault' = io
                 /\ UNCHANGED <<target, audit, rb_result>>
            ELSE IF run_id \notin DOMAIN audit
            THEN /\ io = "ok"
                 /\ rb_result' = RollbackResult(FALSE, NoPath, NoChecksum, NoChecksum,
                                                NoChecksum, FALSE, "Run ID not found")
                 /\ rb_pc' = "returned"
                 /\ UNCHANGED <<target, audit, fault>>
            ELSE IF io = "get_entry"
            THEN /\ rb_pc' = "raised"
                 /\ fault' = io
                 /\ UNCHANGED <<target, audit, rb_result>>
            ELSE IF audit[run_id].backup_path = NoPath
            THEN /\ io = "ok"
                 /\ rb_result' = RollbackResult(FALSE, NoPath, NoChecksum, NoChecksum,
                                                audit[run_id].file_checksum_before, FALSE,
                                                "No backup available for this run")
                 /\ rb_pc' = "returned"
                 /\ UNCHANGED <<target, audit, fault>>
            ELSE LET res == restore_backup(audit[run_id].backup_path,
                                           audit[run_id].file_checksum_before,
                                           io # "copy2")
                 IN  /\ rb_result' = res
                     /\ target' = IF res.success
                                  THEN backups[audit[run_id].backup_path] ELSE target
                     /\ io = "log_rollback" => res.success
                     /\ io = "copy2" => res.error = "error"
                     /\ IF res.success /\ io = "ok"
                        THEN audit' = [audit EXCEPT ![run_id].rolled_back = TRUE]
                        ELSE UNCHANGED audit
                     /\ rb_pc' = IF io = "log_rollback" THEN "raised" ELSE "returned"
                     /\ fault' = IF io = "ok" THEN fault ELSE io
    /\ UNCHANGED <<pre_bytes, backups, temp, fd_open, plan, parse_result, mode,
                   create_backup, accept_risk, accepted_patches, backup_path, content,
                   fallback_used, result, audit_entry, fx_pc>>
    /\ UNCHANGED notFx

FxNext ==
    \/ ApplyFixes \/ WriteFileBackup \/ WriterWrite \/ Mkstemp
    \/ OsWrite \/ OsReplace \/ LogFix \/ Rollback

-----------------------------------------------------------------------------
(* PatchPlanner.plan (core/fix/planner.py).  A fix candidate carries the    *)
(* row of its finding (0 for a finding without row location), its field     *)
(* and its operation name.  The patches of the plan are positions in the    *)
(* sorted patch list; patch values are compared field by field.            *)

\* PatchOperation(candidate.operation) raises ValueError for an unknown name
KnownOperation(name) == name \in PatchOperations

\* The extraction loop of plan: candidates with an unknown operation or
\* without row location are skipped
ExtractPatches(cands) ==
    LET usable == SelectSeq(cands, LAMBDA c : KnownOperation(c.operation) /\ c.row_no # 0)
    IN  [k \in 1..Len(usable) |->
            [row_no |-> usable[k].row_no, field |-> usable[k].field,
             operation |-> usable[k].operation]]

\* Python's order on the field names used here
FieldBefore(f, g) == f = "f0" /\ g = "f1"

\* (p.row_no, p.field) < (q.row_no, q.field)
SortKeyLess(p, q) ==
    \/ p.row_no < q.row_no
    \/ (p.row_no = q.row_no /\ FieldBefore(p.field, q.field))

\* patches.sort(key=...) is stable: a patch goes behind the patches whose key
\* is not greater than its own
RECURSIVE InsertSorted(_, _)
InsertSorted(sorted, p) ==
    IF sorted = <<>> THEN <<p>>
    ELSE IF SortKeyLess(p, Head(sorted)) THEN <<p>> \o sorted
    ELSE <<Head(sorted)>> \o InsertSorted(Tail(sorted), p)

RECURSIVE SortPatches(_)
SortPatches(patches) ==
    IF patches = <<>> THEN <<>>
    ELSE InsertSorted(SortPatches(SubSeq(patches, 1, Len(patches) - 1)),
                      patches[Len(patches)])

\* PatchPlanner._detect_conflicts: patch_list[0] if first-wins else patch_list[-1]
PlannerSelected(patch_list, res) ==
    IF res = "first_wins" THEN patch_list[1] ELSE patch_list[Len(patch_list)]

\* PatchPlanner._detect_conflicts
planner_detect_conflicts(patches, res) ==
    LET groups == SelectSeq(by_location(patches), LAMBDA g : Len(g) > 1)
    IN  [k \in 1..Len(groups) |->
            [row_no |-> patches[groups[k][1]].row_no,
             field |-> patches[groups[k][1]].field,
             patches |-> groups[k],
             resolution |-> res,
             selected_patch |-> PlannerSelected(groups[k], res)]]

\* The excluded set of PatchPlanner._resolve_conflicts: a set of patch values
PlannerExcluded(patches, cs) ==
    {patches[i] : i \in {j \in 1..Len(patches) : \E k \in 1..Len(cs) :
        /\ \E n \in 1..Len(cs[k].patches) : cs[k].patches[n] = j
        /\ patches[j] # patches[cs[k].selected_patch]}}

\* PatchPlanner._resolve_conflicts: [p for p in patches if p not in excluded]
planner_resolve_conflicts(patches, cs) ==
    SelectSeq(Indices(Len(patches)), LAMBDA i : patches[i] \notin PlannerExcluded(patches, cs))

\* Bound: number of fix candidates handed to the planner.
MaxCandidates == 3

Candidates == [row_no : {0, 3, 4}, field : {"f0", "f1"},
               operation : {"upper", "truncate", "no_such_operation"}]

PlInit ==
    /\ findings \in SeqsUpTo(Candidates, MaxCandidates)
    /\ pl_resolution \in Resolutions
    /\ planned = [all |-> <<>>, conflicts |-> <<>>, patches |-> <<>>]
    /\ pl_pc = "plan"

PlIdle ==
    /\ findings = <<>>
    /\ pl_resolution = "first_wins"
    /\ planned = [all |-> <<>>, conflicts |-> <<>>, patches |-> <<>>]
    /\ pl_pc = "idle"

\* PatchPlanner.plan: extract, sort, detect conflicts, resolve
PatchPlannerPlan ==
    /\ pl_pc = "plan"
    /\ LET all == SortPatches(ExtractPatches(findings))
           cs == planner_detect_conflicts(all, pl_resolution)
       IN  planned' = [all |-> all, conflicts |-> cs,
                       patches |-> planner_resolve_conflicts(all, cs)]
    /\ pl_pc' = "returned"
    /\ UNCHANGED <<findings, pl_resolution>>
    /\ UNCHANGED notPl

PlNext == PatchPlannerPlan

-----------------------------------------------------------------------------
(* AuditLogger (core/fix/audit.py) over one audit directory: one JSON file  *)
(* per run id.  audit_dir maps the run ids that have a file to the stored   *)
(* dictionary.                                                              *)

\* datetime.now(UTC) at clock value t; <<>> stands for no timestamp (None)
UtcTime(t) == <<"utc", t>>

NoTimestamp == <<>>

\* datetime.isoformat and datetime.fromisoformat
IsoFormat(dt) == <<"iso", dt[2]>>

FromIsoFormat(s) == <<"utc", s[2]>>

\* AuditLogger._entry_to_dict
entry_to_dict(entry) ==
    [entry EXCEPT
        !.timestamp = IsoFormat(entry.timestamp),
        !.rollback_timestamp = IF entry.rollback_timestamp # NoTimestamp
                               THEN IsoFormat(entry.rollback_timestamp) ELSE NoTimestamp]

\* AuditLogger._dict_to_entry
dict_to_entry(data) ==
    [data EXCEPT
        !.timestamp = FromIsoFormat(data.timestamp),
        !.rollback_timestamp = IF data.rollback_timestamp # NoTimestamp
                               THEN FromIsoFormat(data.rollback_timestamp) ELSE NoTimestamp]

\* AuditLogger._write_entry: open(entry_path, "w") and json.dump
write_entry(dir, entry) == Written(dir, entry_to_dict(entry))

\* AuditLogger.get_entry of a run id that has a file
get_entry(dir, run_id) == dict_to_entry(dir[run_id])

\* The AuditEntry of log_fix with the fields of the plan and the clock
log_fix_entry(run_id, pl, res, t) ==
    AuditEntry(run_id, pl.patches, res) @@
        [file_path |-> pl.file_path, timestamp |-> UtcTime(t),
         rollback_timestamp |-> NoTimestamp]

\* The updated AuditEntry of log_rollback
log_rollback_entry(entry, t) ==
    [entry EXCEPT !.rolled_back = TRUE, !.rollback_timestamp = UtcTime(t)]

\* Bound: number of log_fix and log_rollback calls.
MaxAuditCalls == 3

AuRunIds == {"run-1", "run-2"}

AuPlans ==
    {[file_path |-> "a.csv", patches |-> <<>>],
     [file_path |-> "b.csv",
      patches |-> <<[row_no |-> 3, field |-> "f0", operation |-> "set_field",
                     new_value |-> <<"b">>, risk |-> "low", requires_approval |-> FALSE]>>]}

AuResults ==
    {WriteResult(TRUE, path, Checksum(FileA), Checksum(FileB), "preserve", FALSE, 1, None) :
        path \in {NoPath, BackupName(0)}}

\* The run ids handed to get_entry: those of the log and one that names a
\* path outside the audit directory
UnsafeRunId == "../evil"
OutsideFiles ==
    {<<>>, UnsafeRunId :> entry_to_dict(log_fix_entry("evil", [file_path |-> "a.csv",
                                                               patches |-> <<>>],
                                           WriteResult(TRUE, NoPath, Checksum(FileA),
                                                       Checksum(FileB), "preserve",
                                                       FALSE, 1, None), 1))}

AuInit ==
    /\ audit_dir = <<>>
    /\ now = 1
    /\ au_raised = FALSE
    /\ au_outside \in OutsideFiles
    /\ au_got = NoEntry
    /\ au_read = None

AuIdle ==
    /\ audit_dir = <<>>
    /\ now = 0
    /\ au_raised = FALSE
    /\ au_outside = <<>>
    /\ au_got = NoEntry
    /\ au_read = None

\* AuditLogger.log_fix(run_id, plan, result); writing the file may raise
AuditLoggerLogFix ==
    /\ now \in 1..MaxAuditCalls
    /\ \E run_id \in AuRunIds, pl \in AuPlans, res \in AuResults, written \in BOOLEAN :
         /\ audit_dir' = IF written
                         THEN write_entry(audit_dir, log_fix_entry(run_id, pl, res, now))
                         ELSE audit_dir
         /\ au_raised' = ~written
    /\ now' = now + 1
    /\ UNCHANGED <<au_outside, au_got, au_read>>
    /\ UNCHANGED notAu

\* AuditLogger.log_rollback(run_id, original_run_id): nothing without entry;
\* writing the file may raise
AuditLoggerLogRollback ==
    /\ now \in 1..MaxAuditCalls
    /\ \E original_run_id \in AuRunIds, written \in BOOLEAN :
         IF original_run_id \notin DOMAIN audit_dir
         THEN /\ written
              /\ UNCHANGED audit_dir
              /\ au_raised' = FALSE
         ELSE /\ audit_dir' = IF written
                              THEN write_entry(audit_dir,
                                       log_rollback_entry(get_entry(audit_dir, original_run_id), now))
                              ELSE audit_dir
              /\ au_raised' = ~written
    /\ now' = now + 1
    /\ UNCHANGED <<au_outside, au_got, au_read>>
    /\ UNCHANGED notAu

\* AuditLogger._entry_path: audit_dir / f"{run_id}.json", as the path relative
\* to the audit directory
entry_path(run_id) == run_id

\* AuditLogger.get_entry(run_id): None when no file is at the entry path,
\* else the entry read from that file, inside the directory or not
AuditLoggerGetEntry ==
    /\ \E run_id \in AuRunIds \cup {UnsafeRunId} :
         LET files == audit_dir @@ au_outside IN
         IF entry_path(run_id) \notin DOMAIN files
         THEN /\ au_got' = NoEntry
              /\ au_read' = None
         ELSE /\ au_got' = get_entry(files, run_id)
              /\ au_read' = entry_path(run_id)
    /\ UNCHANGED <<audit_dir, now, au_raised, au_outside>>
    /\ UNCHANGED notAu

AuNext == AuditLoggerLogFix \/ AuditLoggerLogRollback \/ AuditLoggerGetEntry

-----------------------------------------------------------------------------
(* parse_header (core/parser/header.py).  A header token is the field the   *)
(* tokenizer returned: a sequence of characters, where a whole number, date *)
(* or word of the header is one character of the model.                     *)

\* str.strip
RECURSIVE StripLeft(_)
StripLeft(s) ==
    IF s # <<>> /\ Head(s) \in {" ", CR, LF} THEN StripLeft(Tail(s)) ELSE s

RECURSIVE StripRight(_)
StripRight(s) ==
    IF s # <<>> /\ s[Len(s)] \in {" ", CR, LF}
    THEN StripRight(SubSeq(s, 1, Len(s) - 1)) ELSE s

Strip(s) == StripRight(StripLeft(s))

\* The words int() accepts, with their values
IntWords == {"700", "100", "21", "1", "2", "3", "5"}

IntValue(word) ==
    CASE word = "700" -> 700 [] word = "100" -> 100 [] word = "21" -> 21
      [] word = "1" -> 1 [] word = "2" -> 2 [] word = "3" -> 3 [] word = "5" -> 5

\* int(value) succeeds: the stripped value is one integer word
IsInt(value) == Len(Strip(value)) = 1 /\ Strip(value)[1] \in IntWords

IntOf(value) == IntValue(Strip(value)[1])

\* -1 stands for None where the value is an integer, a date or a timestamp
Absent == 0 - 1

\* ParserError.fatal / error / warn / info: severity and code
ParserError(severity, code) == [severity |-> severity, code |-> code]

\* _get_token: the stripped token, or <<>> (None) if not present or empty
get_token(tokens, index) ==
    IF index < Len(tokens) THEN Strip(tokens[index + 1]) ELSE <<>>

\* _parse_int: None if not present or not an integer
parse_int(tokens, index) ==
    LET value == get_token(tokens, index)
    IN  IF value # <<>> /\ IsInt(value) THEN IntOf(value) ELSE Absent

\* The eight-digit words that date() accepts, as yyyymmdd; "20240230" has
\* eight digits but is no date, "2024" is too short
DateWords == {"20240101", "20240630", "20241231"}

DateValue(word) ==
    CASE word = "20240101" -> 20240101
      [] word = "20240630" -> 20240630
      [] word = "20241231" -> 20241231

\* _parse_date: None if not present, too short or not a calendar date
parse_date(tokens, index) ==
    LET value == get_token(tokens, index)
    IN  IF Len(value) = 1 /\ value[1] \in DateWords THEN DateValue(value[1]) ELSE Absent

\* _parse_datetime: None if not present, too short or not a timestamp
parse_datetime(tokens, index) ==
    LET value == get_token(tokens, index)
    IN  IF value = <<"20240101120000">> THEN 20240101 ELSE Absent

\* len() of a word of the header
WordLen(word) == IF word = "EURO" THEN 4 ELSE IF word = "EUR" THEN 3 ELSE 1

\* str.upper on the format marker
MarkerUpper(value) == [k \in 1..Len(value) |-> IF value[k] = "extf" THEN "EXTF" ELSE value[k]]

\* The Field constraints of DatevHeader (models.py): pydantic raises when one
\* is not met
HeaderValid(h) ==
    /\ h.kennzeichen = <<"EXTF">>
    /\ h.header_version >= 500 /\ h.header_version <= 999
    /\ h.account_length # Absent => (h.account_length >= 4 /\ h.account_length <= 9)
    /\ h.currency # <<>> => WordLen(h.currency[1]) <= 3
    /\ h.festschreibung # Absent => (h.festschreibung >= 0 /\ h.festschreibung <= 1)

NoHeader == [kennzeichen |-> <<>>]

\* parse_header after the header version was read: the format category, the
\* format version, the optional fields and the validation of DatevHeader
HeaderFromVersion(tokens, kennzeichen, header_version, errors) ==
    IF ~IsInt(tokens[3])
    THEN [header |-> NoHeader,
          errors |-> Append(errors, ParserError("fatal", "DVL-HDR-003"))]
    ELSE
    LET errors4 == IF IsInt(tokens[5]) THEN errors
                   ELSE Append(errors, ParserError("warn", "DVL-HDR-006"))
        period_from == parse_date(tokens, 15)
        period_to == parse_date(tokens, 16)
        errors5 == IF period_from # Absent /\ period_to # Absent /\ period_from > period_to
                   THEN Append(errors4, ParserError("error", "DVL-HDR-004"))
                   ELSE errors4
        header == [kennzeichen |-> kennzeichen,
                   header_version |-> header_version,
                   format_category |-> IntOf(tokens[3]),
                   format_name |-> Strip(tokens[4]),
                   format_version |-> IF IsInt(tokens[5]) THEN IntOf(tokens[5]) ELSE 0,
                   created_at |-> parse_datetime(tokens, 5),
                   fiscal_year_start |-> parse_date(tokens, 13),
                   account_length |-> parse_int(tokens, 14),
                   period_from |-> period_from,
                   period_to |-> period_to,
                   currency |-> get_token(tokens, 23),
                   festschreibung |-> parse_int(tokens, 30),
                   raw_tokens |-> tokens]
    IN  IF HeaderValid(header)
        THEN [header |-> header, errors |-> errors5]
        ELSE [header |-> NoHeader,
              errors |-> Append(errors5, ParserError("fatal", "DVL-HDR-006"))]

\* parse_header(tokens): the header or NoHeader (None), and the errors
parse_header(tokens) ==
    IF tokens = <<>> \/ Len(tokens) < 5
    THEN [header |-> NoHeader, errors |-> <<ParserError("fatal", "DVL-HDR-001")>>]
    ELSE IF MarkerUpper(Strip(tokens[1])) # <<"EXTF">>
    THEN [header |-> NoHeader, errors |-> <<ParserError("fatal", "DVL-HDR-001")>>]
    ELSE IF ~IsInt(tokens[2])
    THEN [header |-> NoHeader, errors |-> <<ParserError("fatal", "DVL-HDR-002")>>]
    ELSE HeaderFromVersion(tokens, MarkerUpper(Strip(tokens[1])), IntOf(tokens[2]),
             IF IntOf(tokens[2]) >= 500 /\ IntOf(tokens[2]) <= 999 THEN <<>>
             ELSE <<ParserError("error", "DVL-HDR-002")>>)

-----------------------------------------------------------------------------
(* map_columns, parse_row and parse_bytes (core/parser/columns.py, rows.py, *)
(* __init__.py).  A column label is one character of the model.             *)

\* The word of a stripped label; "" for an empty label
LabelWord(label) == IF Strip(label) = <<>> THEN "" ELSE Strip(label)[1]

\* FieldDictionary.get_by_synonym on the labels of the model: the canonical
\* id, or "" (None) for a label the dictionary does not know
get_by_synonym(word) ==
    CASE word \in {"Konto", "Kontonummer", "konto"} -> "konto"
      [] word \in {"Umsatz", "Betrag"} -> "umsatz"
      [] OTHER -> ""

\* label.lower().replace(" ", "_").replace("-", "_")
GeneratedId(word) ==
    CASE word \in {"Foo Bar", "foo-bar"} -> "foo_bar"
      [] OTHER -> word

\* The required fields of the built-in dictionary, in its order
RequiredFields == <<"umsatz", "soll_haben", "konto", "gegenkonto", "belegdatum">>

\* The loop of map_columns from column index on: mappings, seen_ids, errors
RECURSIVE MapFrom(_, _, _)
MapFrom(tokens, index, acc) ==
    IF index >= Len(tokens) THEN acc
    ELSE
    LET word == LabelWord(tokens[index + 1])
        known == get_by_synonym(word)
    IN  MapFrom(tokens, index + 1,
            IF known # "" /\ known \in acc.seen_ids
            THEN [acc EXCEPT !.errors = Append(@, ParserError("warn", "DVL-COL-002"))]
            ELSE IF known # ""
            THEN [mappings |-> Append(acc.mappings,
                                  [index |-> index, canonical_id |-> known,
                                   original_label |-> word]),
                  seen_ids |-> acc.seen_ids \cup {known},
                  errors |-> acc.errors]
            ELSE [mappings |-> Append(acc.mappings,
                                  [index |-> index, canonical_id |-> GeneratedId(word),
                                   original_label |-> word]),
                  seen_ids |-> acc.seen_ids,
                  errors |-> Append(acc.errors, ParserError("info", "DVL-COL-003"))])

\* map_columns(tokens): the ColumnMappings and the errors, those of the
\* missing required fields last
map_columns(tokens) ==
    LET looped == MapFrom(tokens, 0, [mappings |-> <<>>, seen_ids |-> {}, errors |-> <<>>])
        missing == SelectSeq(RequiredFields, LAMBDA f : f \notin looped.seen_ids)
    IN  [columns |-> [mappings |-> looped.mappings, raw_labels |-> tokens],
         errors |-> looped.errors \o
                    [k \in 1..Len(missing) |-> ParserError("error", "DVL-COL-001")]]

\* ColumnMappings.get_index: the index of the first mapping with the id, or
\* -1 (None)
mappings_get_index(columns, canonical_id) ==
    LET hits == SelectSeq(columns.mappings, LAMBDA mp : mp.canonical_id = canonical_id)
    IN  IF hits = <<>> THEN Absent ELSE hits[1].index

\* Decimal(normalized) succeeds on the stripped value
IsDecimal(value) == Strip(value) \in {<<"0001234">>, <<"7">>}

\* fields_raw of parse_row: for every mapping inside the row, in order,
\* fields_raw[mapping.canonical_id] = tokens[mapping.index]; a later mapping
\* with the same id overwrites
fields_raw_of(tokens, columns) ==
    LET inside == SelectSeq(columns.mappings, LAMBDA mp : mp.index < Len(tokens))
        ids == {inside[k].canonical_id : k \in 1..Len(inside)}
        last(id) == CHOOSE k \in 1..Len(inside) :
                        /\ inside[k].canonical_id = id
                        /\ \A j \in (k + 1)..Len(inside) : inside[j].canonical_id # id
    IN  [id \in ids |-> tokens[inside[last(id)].index + 1]]

\* The errors of _convert_field over the mappings of the row: a non-blank
\* value of the decimal field umsatz that Decimal() rejects
row_errors_of(tokens, columns) ==
    LET bad == SelectSeq(columns.mappings, LAMBDA mp :
                   /\ mp.index < Len(tokens)
                   /\ mp.canonical_id = "umsatz"
                   /\ Strip(tokens[mp.index + 1]) # <<>>
                   /\ ~IsDecimal(tokens[mp.index + 1]))
    IN  [k \in 1..Len(bad) |-> ParserError("error", "DVL-FIELD-003")]

\* parse_row: the BookingRow
parse_row(tokens, row_no, start_line, end_line, columns) ==
    [row_no |-> row_no, line_span |-> <<start_line, end_line>>,
     fields_raw |-> fields_raw_of(tokens, columns), raw_tokens |-> tokens]


\* The soft cap of data rows ("Check row limit (99,999)")
RowLimit == 99999

\* One item of the rows iterator: a BookingRow or a ParserError
RowItem(row) == [kind |-> "row", row |-> row]
ErrorItem(error) == [kind |-> "error", error |-> error]

\* The loop of row_factory from record k on, the items yielded so far in acc:
\* a blank record takes a number and is skipped; after a parsed record the
\* number is checked against the limit
RECURSIVE RowsFrom(_, _, _, _, _)
RowsFrom(recs, k, row_no, columns, acc) ==
    IF k > Len(recs) THEN acc
    ELSE IF recs[k].fields = <<>> \/ SkippedRow(recs[k].fields)
    THEN RowsFrom(recs, k + 1, row_no + 1, columns, acc)
    ELSE
    LET row_errors == row_errors_of(recs[k].fields, columns)
        row == parse_row(recs[k].fields, row_no, recs[k].start_line,
                         recs[k].end_line, columns)
        yielded == acc \o [j \in 1..Len(row_errors) |-> ErrorItem(row_errors[j])]
                       \o <<RowItem(row)>>
    IN  IF row_no + 1 > RowLimit + 2
        THEN Append(yielded, ErrorItem(ParserError("warn", "DVL-ROW-001")))
        ELSE RowsFrom(recs, k + 1, row_no + 1, columns, yielded)

\* row_factory(): the text is tokenized again, the header and the column
\* record are passed over, the rows are numbered from 3
row_factory(file_text, columns) ==
    RowsFrom(tokenize_stream(file_text), 3, 3, columns, <<>>)

\* The header of _create_error_result
DummyHeader ==
    [kennzeichen |-> <<"EXTF">>, header_version |-> 700, format_category |-> 21,
     format_name |-> <<"Unknown">>, format_version |-> 0, created_at |-> Absent,
     fiscal_year_start |-> Absent, account_length |-> Absent, period_from |-> Absent,
     period_to |-> Absent, currency |-> <<>>, festschreibung |-> Absent,
     raw_tokens |-> <<>>]

\* _create_error_result: the ParseResult of a fatal outcome; its row factory
\* is empty_row_factory
create_error_result(enc, error) ==
    [encoding |-> enc, header |-> DummyHeader,
     columns |-> [mappings |-> <<>>, raw_labels |-> <<>>],
     row_factory_fn |-> "empty_row_factory", header_errors |-> <<error>>,
     file_text |-> <<>>]

\* len(data): the characters and the byte order mark
DataLen(data) == Len(data.chars) + (IF data.bom = NoBom THEN 0 ELSE 1)

\* parse_bytes(data, max_bytes); max_bytes = 0 stands for None.  parsed is
\* what parse_header returned, NotParsed when it was not called.
NotParsed == [header |-> NoHeader, errors |-> <<ParserError("none", "not called")>>]

parse_bytes(data, max_bytes) ==
    IF max_bytes > 0 /\ DataLen(data) > max_bytes
    THEN [parsed |-> NotParsed,
          result |-> create_error_result("<unknown>", ParserError("fatal", "DVL-IO-001"))]
    ELSE
    LET enc == detect_encoding(data)
        file_text == Decode(data, enc)
        recs == tokenize_stream(file_text)
    IN  IF Len(recs) < 2
        THEN [parsed |-> NotParsed,
              result |-> create_error_result(enc, ParserError("fatal", "DVL-HDR-001"))]
        ELSE
        LET parsed == parse_header(recs[1].fields)
            mapped == map_columns(recs[2].fields)
        IN  IF parsed.header = NoHeader
            THEN [parsed |-> parsed,
                  result |-> create_error_result(enc,
                                 IF parsed.errors # <<>> THEN parsed.errors[1]
                                 ELSE ParserError("fatal", "DVL-HDR-001"))]
            ELSE [parsed |-> parsed,
                  result |-> [encoding |-> enc, header |-> parsed.header,
                              columns |-> mapped.columns,
                              row_factory_fn |-> "row_factory",
                              header_errors |-> parsed.errors \o mapped.errors,
                              file_text |-> file_text]]

\* ParseResult.rows: a new iterator of the row factory, as the list it yields
result_rows(res) ==
    IF res.row_factory_fn = "row_factory"
    THEN row_factory(res.file_text, res.columns)
    ELSE <<>>

\* ParseResult.has_fatal_errors
has_fatal_errors(res) ==
    \E k \in 1..Len(res.header_errors) : res.header_errors[k].severity = "fatal"


\* The number of fields of a complete header line (HEADER_FIELDS)
HeaderFieldCount == 31

\* A field holding one word; the empty field for ""
Field(word) == IF word = "" THEN <<>> ELSE <<word>>

\* The optional fields of a header line, by name
DefaultOptions ==
    [created_at |-> "20240101120000", fiscal_year_start |-> "20240101",
     account_length |-> "5", period_from |-> "20240101", period_to |-> "20241231",
     currency |-> "EUR", festschreibung |-> "1"]

OptionProfiles ==
    {DefaultOptions,
     [DefaultOptions EXCEPT !.created_at = "x"],
     [DefaultOptions EXCEPT !.fiscal_year_start = "x"],
     [DefaultOptions EXCEPT !.account_length = "x"],
     [DefaultOptions EXCEPT !.account_length = "3"],
     [DefaultOptions EXCEPT !.period_from = "x"],
     [DefaultOptions EXCEPT !.period_from = "20241231", !.period_to = "20240101"],
     [DefaultOptions EXCEPT !.currency = "EURO"],
     [DefaultOptions EXCEPT !.currency = ""],
     [DefaultOptions EXCEPT !.festschreibung = "x"],
     [DefaultOptions EXCEPT !.festschreibung = "2"]}

\* The header fields 6..31 (indices 5..30 of HEADER_FIELDS)
OptionalTokens(o) ==
    [k \in 1..(HeaderFieldCount - 5) |->
        CASE k + 4 = 5 -> Field(o.created_at)
          [] k + 4 = 13 -> Field(o.fiscal_year_start)
          [] k + 4 = 14 -> Field(o.account_length)
          [] k + 4 = 15 -> Field(o.period_from)
          [] k + 4 = 16 -> Field(o.period_to)
          [] k + 4 = 23 -> Field(o.currency)
          [] k + 4 = 30 -> Field(o.festschreibung)
          [] OTHER -> <<>>]

\* The header lines of the model: the five mandatory fields, or only four,
\* alone or followed by the optional fields
MandatoryTokens ==
    {<<Field(marker), Field(version), Field(category), Field(name), Field(fversion)>> :
        marker \in {"EXTF", "extf", "DTVF"}, version \in {"700", "100", "x"},
        category \in {"21", "x"}, name \in {"Buchungsstapel", ""},
        fversion \in {"1", "x"}}
    \cup {<<<<"EXTF">>, <<"700">>, <<"21">>, <<"Buchungsstapel">>>>}

HeaderLines ==
    MandatoryTokens \cup {mt \o OptionalTokens(o) : mt \in MandatoryTokens, o \in OptionProfiles}

ValidHeaderLine == <<<<"EXTF">>, <<"700">>, <<"21">>, <<"Buchungsstapel">>, <<"1">>>>

\* The column labels and the data records of the model
MaxColumns == 2
MaxRows == 3
Labels == {"Konto", "Kontonummer", "Umsatz", "Foo Bar", "foo-bar"}
LabelLines == {[k \in 1..Len(ws) |-> <<ws[k]>>] : ws \in SeqsUpTo(Labels, MaxColumns)}
DataRecords ==
    {<<<<"0001234">>, <<" ", "7">>>>, <<<<"a">>>>, <<<<" ">>, <<" ">>>>, <<<<>>, <<>>>>}

\* The text of a file: its lines joined, each ended by a line feed
FileText(lines) == Concat([k \in 1..Len(lines) |-> JoinDelim(lines[k]) \o <<LF>>])

\* The files of the model: no line or a header line alone; any header line
\* before one column line and one record; a valid header line before any
\* column line and any records
Files ==
    {<<>>, FileText(<<ValidHeaderLine>>)}
    \cup {FileText(<<h, <<<<"Konto">>>>, <<<<"0001234">>>>>>) : h \in HeaderLines}
    \cup {FileText(<<ValidHeaderLine, ls>> \o rs) :
            ls \in LabelLines, rs \in SeqsUpTo(DataRecords, MaxRows)}

MaxIterations == 2
MaxBytesChoices == {0, 2}
NoParseResult == [row_factory_fn |-> "<unset>"]

PbInit ==
    /\ pb_data \in {[bom |-> NoBom, chars |-> t] : t \in Files}
    /\ pb_parsed = NotParsed
    /\ pb_result = NoParseResult
    /\ pb_items = <<>>
    /\ pb_iterations = 0

PbIdle ==
    /\ pb_data = NoBytes
    /\ pb_parsed = NotParsed
    /\ pb_result = NoParseResult
    /\ pb_items = <<>>
    /\ pb_iterations = 0

\* parse_bytes(data, max_bytes=...)
ParseBytes ==
    /\ pb_result = NoParseResult
    /\ \E max_bytes \in MaxBytesChoices :
          /\ pb_parsed' = parse_bytes(pb_data, max_bytes).parsed
          /\ pb_result' = parse_bytes(pb_data, max_bytes).result
    /\ UNCHANGED <<pb_data, pb_items, pb_iterations>>
    /\ UNCHANGED notPb

\* list(result.rows): one more iteration of the rows of the ParseResult
IterateRows ==
    /\ pb_result # NoParseResult
    /\ pb_iterations < MaxIterations
    /\ pb_items' = result_rows(pb_result)
    /\ pb_iterations' = pb_iterations + 1
    /\ UNCHANGED <<pb_data, pb_parsed, pb_result>>
    /\ UNCHANGED notPb

PbNext == ParseBytes \/ IterateRows


-----------------------------------------------------------------------------
(* The loop of row_factory near the row limit.  A record is "row" (some     *)
(* field is not blank) or "blank".  The loop starts where it stands after   *)
(* ParsedBefore non-blank records followed by BlankBefore blank ones; the   *)
(* check after each parsed record has let it go on, so ParsedBefore is at  *)
(* most RowLimit - 1.                                                       *)

MaxRest == 3
MaxBlankBefore == 1
ParsedBefore == {0, 1, RowLimit - 3, RowLimit - 2, RowLimit - 1}
RowCount(records) == Len(SelectSeq(records, LAMBDA r : r = "row"))

RfInit ==
    \E parsed \in ParsedBefore, blank \in 0..MaxBlankBefore :
        /\ rf_row_no = 3 + parsed + blank
        /\ rf_rest \in SeqsUpTo({"row", "blank"}, MaxRest)
        /\ rf_emitted = parsed
        /\ rf_tail = <<>>
        /\ rf_data_rows = parsed + RowCount(rf_rest)
        /\ rf_pc = "loop"

RfIdle ==
    /\ rf_row_no = 3
    /\ rf_rest = <<>>
    /\ rf_emitted = 0
    /\ rf_tail = <<>>
    /\ rf_data_rows = 0
    /\ rf_pc = "idle"

\* "Skip empty rows": row_no += 1; continue
RowFactoryBlank ==
    /\ rf_pc = "loop" /\ rf_rest # <<>> /\ Head(rf_rest) = "blank"
    /\ rf_row_no' = rf_row_no + 1
    /\ rf_rest' = Tail(rf_rest)
    /\ UNCHANGED <<rf_emitted, rf_tail, rf_data_rows, rf_pc>>
    /\ UNCHANGED notRf

\* A parsed record: yield row; row_no += 1; over the limit, yield the
\* warning DVL-ROW-001 and break
RowFactoryRow ==
    /\ rf_pc = "loop" /\ rf_rest # <<>> /\ Head(rf_rest) = "row"
    /\ rf_row_no' = rf_row_no + 1
    /\ rf_rest' = Tail(rf_rest)
    /\ rf_emitted' = rf_emitted + 1
    /\ IF rf_row_no + 1 > RowLimit + 2
       THEN /\ rf_tail' = rf_tail \o <<"row", "DVL-ROW-001">>
            /\ rf_pc' = "done"
       ELSE /\ rf_tail' = Append(rf_tail, "row")
            /\ rf_pc' = "loop"
    /\ UNCHANGED rf_data_rows
    /\ UNCHANGED notRf

\* The records are exhausted: the iterator ends
RowFactoryEnd ==
    /\ rf_pc = "loop" /\ rf_rest = <<>>
    /\ rf_pc' = "done"
    /\ UNCHANGED <<rf_row_no, rf_rest, rf_emitted, rf_tail, rf_data_rows>>
    /\ UNCHANGED notRf

RfNext == RowFactoryBlank \/ RowFactoryRow \/ RowFactoryEnd


-----------------------------------------------------------------------------
(* derive_year (core/parser/dates.py).  A date is <<year, month, day>>,     *)
(* None is NoDate; a TTMM string is a sequence of characters.               *)

NoDate == <<>>

\* date1 <= date2 of datetime.date
DateLeq(d1, d2) ==
    \/ d1[1] < d2[1]
    \/ d1[1] = d2[1] /\ d1[2] < d2[2]
    \/ d1[1] = d2[1] /\ d1[2] = d2[2] /\ d1[3] <= d2[3]

IsLeapYear(year) == year % 4 = 0 /\ (year % 100 # 0 \/ year % 400 = 0)

DaysInMonth(year, month) ==
    IF month = 2 THEN (IF IsLeapYear(year) THEN 29 ELSE 28)
    ELSE IF month \in {4, 6, 9, 11} THEN 30 ELSE 31

\* date(year, month, day) does not raise ValueError
IsValidDate(year, month, day) ==
    month >= 1 /\ month <= 12 /\ day >= 1 /\ day <= DaysInMonth(year, month)

Digits == {"0", "1", "2", "3", "4", "5", "6", "7", "8", "9"}

DigitValue(c) ==
    CASE c = "0" -> 0 [] c = "1" -> 1 [] c = "2" -> 2 [] c = "3" -> 3 [] c = "4" -> 4
      [] c = "5" -> 5 [] c = "6" -> 6 [] c = "7" -> 7 [] c = "8" -> 8 [] c = "9" -> 9

\* int() of two digits
TwoDigits(s) == 10 * DigitValue(s[1]) + DigitValue(s[2])

Min(a, b) == IF a < b THEN a ELSE b
Max(a, b) == IF a > b THEN a ELSE b

DerivedDate(raw_ttmm, day, month, year, derived_date, confidence, warning_code) ==
    [raw_ttmm |-> raw_ttmm, day |-> day, month |-> month, year |-> year,
     derived_date |-> derived_date, confidence |-> confidence,
     warning_code |-> warning_code]

\* A same-year confidence that never reports a date outside the period
SameYearConfidenceHigh(derived_date, period_from, period_to) == "high"

\* _derive_from_period, same year: "Check if within period"
SameYearConfidence(derived_date, period_from, period_to) ==
    IF DateLeq(period_from, derived_date) /\ DateLeq(derived_date, period_to)
    THEN "high" ELSE "medium"

\* A selection of the later candidate
SelectLastCandidate(candidates) == candidates[Len(candidates)]

\* "Prefer the earlier year (convention)": candidates[0]
SelectCandidate(candidates) == candidates[1]

\* The candidates of _derive_from_period: for year_from, then year_to, the
\* date if it can be constructed and lies within the period
PeriodCandidates(day, month, period_from, period_to) ==
    SelectSeq(<<<<period_from[1], month, day>>, <<period_to[1], month, day>>>>,
              LAMBDA c : /\ IsValidDate(c[1], c[2], c[3])
                         /\ DateLeq(period_from, c) /\ DateLeq(c, period_to))

derive_from_period(ttmm, day, month, period_from, period_to) ==
    IF period_from[1] = period_to[1]
    THEN IF IsValidDate(period_from[1], month, day)
         THEN LET derived_date == <<period_from[1], month, day>>
                  confidence == SameYearConfidence(derived_date, period_from, period_to)
              IN  DerivedDate(ttmm, day, month, period_from[1], derived_date, confidence,
                              IF confidence = "high" THEN None ELSE "DVL-DATE-003")
         ELSE DerivedDate(ttmm, day, month, Absent, NoDate, "failed", "DVL-DATE-001")
    ELSE
    LET candidates == PeriodCandidates(day, month, period_from, period_to) IN
    IF Len(candidates) = 1
    THEN DerivedDate(ttmm, day, month, candidates[1][1], candidates[1], "high", None)
    ELSE IF Len(candidates) > 1
    THEN DerivedDate(ttmm, day, month, SelectCandidate(candidates)[1],
                     SelectCandidate(candidates), "ambiguous", "DVL-DATE-002")
    ELSE DerivedDate(ttmm, day, month, Absent, NoDate, "failed", "DVL-DATE-003")

derive_from_fiscal_year(ttmm, day, month, fiscal_year_start) ==
    LET year == IF month < fiscal_year_start[2] THEN fiscal_year_start[1] + 1
                ELSE fiscal_year_start[1]
    IN  IF IsValidDate(year, month, day)
        THEN DerivedDate(ttmm, day, month, year, <<year, month, day>>, "medium", None)
        ELSE DerivedDate(ttmm, day, month, Absent, NoDate, "failed", "DVL-DATE-001")

derive_year(ttmm, fiscal_year_start, period_from, period_to) ==
    IF Len(ttmm) # 4 \/ \E k \in 1..Len(ttmm) : ttmm[k] \notin Digits
    THEN DerivedDate(ttmm, 0, 0, Absent, NoDate, "failed", "DVL-DATE-001")
    ELSE
    LET day == TwoDigits(SubSeq(ttmm, 1, 2))
        month == TwoDigits(SubSeq(ttmm, 3, 4))
    IN  IF ~(1 <= day /\ day <= 31) \/ ~(1 <= month /\ month <= 12)
        THEN DerivedDate(ttmm, Min(Max(day, 0), 31), Min(Max(month, 0), 12),
                         Absent, NoDate, "failed", "DVL-DATE-001")
        ELSE IF period_from # NoDate /\ period_to # NoDate
        THEN derive_from_period(ttmm, day, month, period_from, period_to)
        ELSE IF fiscal_year_start # NoDate
        THEN derive_from_fiscal_year(ttmm, day, month, fiscal_year_start)
        ELSE DerivedDate(ttmm, day, month, Absent, NoDate, "unknown", "DVL-DATE-004")

\* The TTMM strings, the period bounds and the fiscal year starts of the model
DayStrings == {<<"0", "0">>, <<"0", "1">>, <<"1", "5">>, <<"2", "9">>, <<"3", "0">>,
               <<"3", "1">>, <<"3", "2">>}
MonthStrings == {<<"0", "0">>, <<"0", "1">>, <<"0", "2">>, <<"0", "4">>, <<"0", "6">>,
                 <<"0", "7">>, <<"1", "1">>, <<"1", "2">>, <<"1", "3">>}
Ttmms == {d \o mo : d \in DayStrings, mo \in MonthStrings}
         \cup {<<>>, <<"1", "5", "0">>, <<"1", "5", "0", "x">>}
PeriodDates == {<<2023, 10, 1>>, <<2024, 1, 1>>, <<2024, 2, 29>>, <<2024, 6, 30>>,
                <<2024, 12, 31>>, <<2025, 1, 31>>, <<2025, 12, 31>>}
FiscalYearStarts == {NoDate, <<2024, 1, 1>>, <<2024, 7, 1>>, <<2024, 7, 15>>}

DyInit ==
    /\ dy_ttmm \in Ttmms
    /\ \/ /\ dy_period_from \in PeriodDates
          /\ dy_period_to \in PeriodDates
          /\ dy_fiscal_year_start = <<2024, 1, 1>>
       \/ /\ dy_period_from = NoDate
          /\ dy_period_to \in {NoDate, <<2024, 12, 31>>}
          /\ dy_fiscal_year_start \in FiscalYearStarts
    /\ dy_derived = [confidence |-> "<unset>"]
    /\ dy_pc = "call"

DyIdle ==
    /\ dy_ttmm = <<>>
    /\ dy_period_from = NoDate
    /\ dy_period_to = NoDate
    /\ dy_fiscal_year_start = NoDate
    /\ dy_derived = [confidence |-> "<unset>"]
    /\ dy_pc = "idle"

\* derive_year(ttmm, fiscal_year_start, period_from, period_to)
DeriveYear ==
    /\ dy_pc = "call"
    /\ dy_derived' = derive_year(dy_ttmm, dy_fiscal_year_start, dy_period_from, dy_period_to)
    /\ dy_pc' = "done"
    /\ UNCHANGED <<dy_ttmm, dy_fiscal_year_start, dy_period_from, dy_period_to>>
    /\ UNCHANGED notDy

DyNext == DeriveYear


-----------------------------------------------------------------------------
(* BackupManager.create_backup, call after call with one timestamp          *)

MaxBackups == 3

\* A test for an existing file that never finds one
PathExistsNever(bk, path) == FALSE

\* backup_path.exists()
PathExists(bk, path) == path \in DOMAIN bk

BmInit ==
    /\ bm_file \in {FileA, FileB}
    /\ bm_backups \in {<<>>, Copied(<<>>, BackupName(0), OldBackup),
                       Copied(<<>>, BackupName(1), OldBackup)}
    /\ bm_path = NoPath
    /\ bm_counter = 0
    /\ bm_made = <<>>
    /\ bm_pc = "idle"

BmIdle ==
    /\ bm_file = NoFile
    /\ bm_backups = <<>>
    /\ bm_path = NoPath
    /\ bm_counter = 0
    /\ bm_made = <<>>
    /\ bm_pc = "off"

\* create_backup(file_path, timestamp) up to the loop: backup_path is the
\* timestamped name, counter = 0
CreateBackupCall ==
    /\ bm_pc = "idle" /\ Len(bm_made) < MaxBackups
    /\ bm_path' = BackupName(0)
    /\ bm_counter' = 0
    /\ bm_pc' = "loop"
    /\ UNCHANGED <<bm_file, bm_backups, bm_made>>
    /\ UNCHANGED notBm

\* "while backup_path.exists(): counter += 1; backup_path = ... .{counter}"
CreateBackupLoop ==
    /\ bm_pc = "loop" /\ PathExists(bm_backups, bm_path)
    /\ bm_counter' = bm_counter + 1
    /\ bm_path' = BackupName(bm_counter + 1)
    /\ UNCHANGED <<bm_file, bm_backups, bm_made, bm_pc>>
    /\ UNCHANGED notBm

\* shutil.copy2(file_path, backup_path); return backup_path
CreateBackupCopy ==
    /\ bm_pc = "loop" /\ ~PathExists(bm_backups, bm_path)
    /\ bm_backups' = Copied(bm_backups, bm_path, bm_file)
    /\ bm_made' = Append(bm_made, [path |-> bm_path, content |-> bm_file])
    /\ bm_pc' = "idle"
    /\ UNCHANGED <<bm_file, bm_path, bm_counter>>
    /\ UNCHANGED notBm

\* Between two calls the file gets other content
FileChanged ==
    /\ bm_pc = "idle"
    /\ bm_file' \in {FileA, FileB} \ {bm_file}
    /\ UNCHANGED <<bm_backups, bm_path, bm_counter, bm_made, bm_pc>>
    /\ UNCHANGED notBm

BmNext == CreateBackupCall \/ CreateBackupLoop \/ CreateBackupCopy \/ FileChanged

-----------------------------------------------------------------------------
(* Specifications                                                          *)

InitTok == TokInit /\ WrIdle /\ RkIdle /\ CdIdle /\ FxIdle /\ PlIdle /\ AuIdle /\ PbIdle /\ RfIdle /\ DyIdle /\ BmIdle
SpecTok == InitTok /\ [][TokNext]_vars

InitWrite == WrInit /\ TokIdle /\ RkIdle /\ CdIdle /\ FxIdle /\ PlIdle /\ AuIdle /\ PbIdle /\ RfIdle /\ DyIdle /\ BmIdle
SpecWrite == InitWrite /\ [][WrNext]_vars

InitRisk == RkInit /\ TokIdle /\ WrIdle /\ CdIdle /\ FxIdle /\ PlIdle /\ AuIdle /\ PbIdle /\ RfIdle /\ DyIdle /\ BmIdle
SpecRisk == InitRisk /\ [][RkNext]_vars

InitConflicts == CdInit /\ TokIdle /\ WrIdle /\ RkIdle /\ FxIdle /\ PlIdle /\ AuIdle /\ PbIdle /\ RfIdle /\ DyIdle /\ BmIdle
SpecConflicts == InitConflicts /\ [][CdNext]_vars

InitFix == FxInit /\ TokIdle /\ WrIdle /\ RkIdle /\ CdIdle /\ PlIdle /\ AuIdle /\ PbIdle /\ RfIdle /\ DyIdle /\ BmIdle
SpecFix == InitFix /\ [][FxNext]_vars

InitPlanner == PlInit /\ TokIdle /\ WrIdle /\ RkIdle /\ CdIdle /\ FxIdle /\ AuIdle /\ PbIdle /\ RfIdle /\ DyIdle /\ BmIdle
SpecPlanner == InitPlanner /\ [][PlNext]_vars

InitAudit == AuInit /\ TokIdle /\ WrIdle /\ RkIdle /\ CdIdle /\ FxIdle /\ PlIdle /\ PbIdle /\ RfIdle /\ DyIdle /\ BmIdle
SpecAudit == InitAudit /\ [][AuNext]_vars


InitParse == PbInit /\ TokIdle /\ WrIdle /\ RkIdle /\ CdIdle /\ FxIdle /\ PlIdle /\ AuIdle /\ RfIdle /\ DyIdle /\ BmIdle
SpecParse == InitParse /\ [][PbNext]_vars


InitRows == RfInit /\ TokIdle /\ WrIdle /\ RkIdle /\ CdIdle /\ FxIdle /\ PlIdle /\ AuIdle /\ PbIdle /\ DyIdle /\ BmIdle
SpecRows == InitRows /\ [][RfNext]_vars


InitDates == DyInit /\ TokIdle /\ WrIdle /\ RkIdle /\ CdIdle /\ FxIdle /\ PlIdle /\ AuIdle /\ PbIdle /\ RfIdle /\ BmIdle
SpecDates == InitDates /\ [][DyNext]_vars


InitBackups == BmInit /\ TokIdle /\ WrIdle /\ RkIdle /\ CdIdle /\ FxIdle /\ PlIdle /\ AuIdle /\ PbIdle /\ RfIdle /\ DyIdle
SpecBackups == InitBackups /\ [][BmNext]_vars

-----------------------------------------------------------------------------
\* C1: for every input text tokenize_stream never stops before the end of the
\* text (no state without a handler, no read past the text), and for every
\* yielded record end_line >= start_line >= 1, with end_line non-decreasing
\* from one yielded record to the next.
C1_LineSpans ==
    /\ tok_pc = "scan" => ENABLED TokStep
    /\ tok.i <= Len(text) + 1
    /\ \A k \in 1..Len(tok.records) :
         /\ tok.records[k].start_line >= 1
         /\ tok.records[k].end_line >= tok.records[k].start_line
         /\ k > 1 => tok.records[k].end_line >= tok.records[k - 1].end_line

\* Two records have been yielded, the second after a line break.
C1_Witness ==
    /\ tok_pc = "done"
    /\ Len(tok.records) >= 2
    /\ tok.records[2].end_line > tok.records[1].end_line

\* C3: the preserve writer applied with a plan that has no patches returns
\* bytes identical to the original file bytes, for every file content.
C3_EmptyPlanRoundTrip ==
    (wr_pc = "written" /\ wr_patches = <<>>) => result_bytes = original_bytes

\* C4: preserve mode is a minimal diff.  After the preserve writer applied a
\* plan, every line that is not the line of a patched row is byte-identical to
\* the original including its terminator, and in a patched line every token
\* other than the one at the patched column index, and the terminator, are
\* unchanged.  Lines are byte-identical when their characters are equal and
\* the file's byte-order mark (hence the encoding of every character) is kept.
C4_MinimalDiff ==
    (wr_pc = "written" /\ wr_patches # <<>> /\ result_bytes # RaisedBytes) =>
        LET old == split_lines(Decode(original_bytes, encoding))
            new == split_lines(Decode(result_bytes, encoding))
            rows == {wr_patches[n].row_no : n \in 1..Len(wr_patches)}
            cols(k) == {get_index(wr_patches[n].field) + 1 :
                          n \in {m \in 1..Len(wr_patches) : wr_patches[m].row_no = k}}
        IN  /\ result_bytes.bom = original_bytes.bom
            /\ Len(new) = Len(old)
            /\ \A k \in 1..Len(old) :
                 /\ new[k].ending = old[k].ending
                 /\ k \notin rows => new[k].content = old[k].content
                 /\ k \in rows =>
                      LET ot == tokenize_csv_line(old[k].content)
                          nt == tokenize_csv_line(new[k].content)
                      IN  /\ Len(nt) = Len(ot)
                          /\ \A j \in 1..Len(ot) : j \notin cols(k) => nt[j] = ot[j]

\* C9: should_apply(patch, accept_risk) returns true exactly when the patch's
\* risk is not above the ceiling in the order LOW < MEDIUM < HIGH and the
\* patch either does not require approval or the ceiling is HIGH.
C9_ShouldApply ==
    rk_pc = "returned" =>
        (rk_result <=>
            /\ <<rk_patch.risk, rk_accept>> \in
                  {<<"low", "low">>, <<"low", "medium">>, <<"low", "high">>,
                   <<"medium", "medium">>, <<"medium", "high">>,
                   <<"high", "high">>}
            /\ (~rk_patch.requires_approval \/ rk_accept = "high"))

\* should_apply has accepted a patch whose risk equals the ceiling, and
\* elsewhere refused one only because it requires approval.
C9_Witness ==
    /\ rk_pc = "returned"
    /\ rk_result
    /\ rk_patch.risk = rk_accept
    /\ rk_patch.requires_approval

\* C10: with first-wins (last-wins) resolution, for every (row_no, field)
\* targeted by more than one patch the conflict of that key selects the first
\* (last) patch in input order, the resolved list contains the selected patch
\* and no other patch of the group, every patch alone on its key is kept, and
\* the resolved list is in input order.
C10_FirstLastWins ==
    (cd_pc = "resolved" /\ resolution \in {"first_wins", "last_wins"}) =>
        LET n == Len(cd_patches)
            group(i) == {j \in 1..n : KeyOf(cd_patches[j]) = KeyOf(cd_patches[i])}
            kept == {resolved[k] : k \in 1..Len(resolved)}
            chosen(i) == IF resolution = "first_wins"
                         THEN CHOOSE j \in group(i) : \A m \in group(i) : j <= m
                         ELSE CHOOSE j \in group(i) : \A m \in group(i) : j >= m
        IN  /\ \A i \in 1..n :
                 IF Cardinality(group(i)) > 1
                 THEN /\ \E k \in 1..Len(conflicts) :
                            /\ KeyOf(conflicts[k]) = KeyOf(cd_patches[i])
                            /\ conflicts[k].selected_patch = chosen(i)
                      /\ (i \in kept <=> i = chosen(i))
                 ELSE i \in kept
            /\ \A k \in 1..(Len(resolved) - 1) : resolved[k] < resolved[k + 1]

\* C2: backup -> apply -> rollback.  When apply_fixes with create_backup
\* succeeded and rollback was then called with the run id of its audit entry,
\* no I/O call having failed, the target's bytes equal its bytes before
\* apply_fixes, and the RollbackResult reports success with restored_checksum
\* equal to the checksum of the backup.
C2_BackupApplyRollback ==
    (/\ rb_pc = "returned"
     /\ create_backup /\ result.success /\ audit_entry # NoEntry
     /\ rb_run_id = audit_entry.run_id
     /\ fault = "none") =>
        /\ target = pre_bytes
        /\ rb_result.success
        /\ rb_result.restored_checksum = Checksum(backups[backup_path])

\* C5: atomic commit of write_file.  While apply_fixes runs and after it the
\* target holds its complete previous content or the complete new content;
\* after a failed temp-file creation, write or rename the target holds its
\* previous content, the temporary file is gone and the WriteResult has
\* success = false and an error.
C5_AtomicCommit ==
    /\ rb_pc = "idle" => target \in {pre_bytes, content}
    /\ (fx_pc \in {"log_fix", "returned"} /\ fault \in {"mkstemp", "os_write", "os_replace"}) =>
          /\ target = pre_bytes
          /\ temp = NoFile
          /\ ~result.success /\ result.error # None

\* C6: write_file, apply_fixes, restore_backup and rollback are result-typed:
\* no failure of backup creation, of a writer, of the commit or of the audit
\* log leaves apply_fixes or rollback as an exception.
C6_ResultTyped == fx_pc # "raised" /\ rb_pc # "raised"

\* C7: with create_backup the backup is taken before any write.  From the
\* call of the writer up to the rename the target still has the content it
\* had when apply_fixes started and a backup file with that content exists at
\* backup_path; that path is the one in a successful WriteResult and in the
\* audit entry.
C7_BackupBeforeWrite ==
    create_backup =>
        /\ fx_pc \in {"writer", "mkstemp", "os_write", "os_replace"} =>
              /\ target = pre_bytes
              /\ backup_path \in DOMAIN backups
              /\ backups[backup_path] = pre_bytes
        /\ result.success =>
              /\ result.backup_path \in DOMAIN backups
              /\ backups[result.backup_path] = pre_bytes
        /\ audit_entry # NoEntry => audit_entry.backup_path = result.backup_path

\* apply_fixes has replaced the target by different bytes, its backup had to
\* take the second name because the first was in use, and the entry is logged.
C7_Witness ==
    /\ create_backup /\ result.success /\ audit_entry # NoEntry
    /\ target # pre_bytes
    /\ backup_path = BackupName(1)
    /\ fault = "none" /\ rb_pc = "idle"

\* C8: the risk gate runs before any write.  Every patch handed to write_file
\* and recorded in the audit entry has a risk not above accept_risk and, if it
\* requires approval, accept_risk is HIGH; with the ceiling LOW only patches of
\* risk LOW without requires_approval get there, and a plan that has none of
\* those leaves the preserve writer's output equal to the file.
C8_RiskGate ==
    fx_pc \notin {"idle", "apply_fixes"} =>
        /\ \A k \in 1..Len(accepted_patches) :
             /\ <<accepted_patches[k].risk, accept_risk>> \in
                   {<<"low", "low">>, <<"low", "medium">>, <<"low", "high">>,
                    <<"medium", "medium">>, <<"medium", "high">>, <<"high", "high">>}
             /\ accepted_patches[k].requires_approval => accept_risk = "high"
             /\ accept_risk = "low" =>
                   /\ accepted_patches[k].risk = "low"
                   /\ ~accepted_patches[k].requires_approval
        /\ audit_entry # NoEntry =>
             /\ Len(audit_entry.patches) = Len(accepted_patches)
             /\ \A k \in 1..Len(accepted_patches) :
                  audit_entry.patches[k] = AuditPatchEntry(accepted_patches[k])
        /\ (/\ accept_risk = "low"
            /\ \A k \in 1..Len(plan.patches) :
                   plan.patches[k].risk # "low" \/ plan.patches[k].requires_approval
            /\ fx_pc = "mkstemp" /\ ~fallback_used /\ mode = "preserve") =>
                content = target

\* apply_fixes has written and logged a plan of which the gate let one patch
\* through and held one back.
C8_Witness ==
    /\ fx_pc = "returned" /\ result.success /\ audit_entry # NoEntry
    /\ Len(plan.patches) = 2
    /\ Len(accepted_patches) = 1
    /\ fault = "none"

\* C11: a plan built by PatchPlanner.plan with resolution MANUAL selects no
\* patch in any conflict, and its patch list contains no member of a conflict
\* group: every patch of the plan is alone on its (row_no, field).
C11_ManualPlan ==
    (pl_pc = "returned" /\ pl_resolution = "manual") =>
        /\ \A k \in 1..Len(planned.conflicts) : planned.conflicts[k].selected_patch = 0
        /\ \A k \in 1..Len(planned.patches) :
             \A j \in 1..Len(planned.all) :
                KeyOf(planned.all[j]) = KeyOf(planned.all[planned.patches[k]])
                    => j = planned.patches[k]

\* C12: conflict detection returns exactly one Conflict for each
\* (row_no, field) targeted by two or more patches and none for a key
\* targeted by a single patch; each Conflict lists all and only the patches
\* with its key, in input order.
C12_OneConflictPerKey ==
    cd_pc \in {"resolve", "resolved"} =>
        LET n == Len(cd_patches)
            group(i) == {j \in 1..n : KeyOf(cd_patches[j]) = KeyOf(cd_patches[i])}
            reported(i) == {k \in 1..Len(conflicts) : KeyOf(conflicts[k]) = KeyOf(cd_patches[i])}
        IN  /\ \A i \in 1..n :
                 Cardinality(reported(i)) = IF Cardinality(group(i)) > 1 THEN 1 ELSE 0
            /\ \A k \in 1..Len(conflicts) :
                 /\ \E i \in 1..n : KeyOf(conflicts[k]) = KeyOf(cd_patches[i])
                 /\ conflicts[k].patches =
                        SelectSeq(Indices(n), LAMBDA j : KeyOf(cd_patches[j]) = KeyOf(conflicts[k]))

\* A conflict of two patches was reported next to a patch alone on its key
C12_Witness ==
    /\ cd_pc = "resolve"
    /\ Len(conflicts) = 1
    /\ Len(conflicts[1].patches) = 2
    /\ Len(cd_patches) = 3

\* C13: a plan is rejected when the file changed between planning and
\* writing: if the checksum of the target when apply_fixes is called differs
\* from plan.file_checksum, apply_fixes does not modify the target.
C13_StalePlanRejected ==
    (rb_pc = "idle" /\ fx_pc # "idle" /\ Checksum(pre_bytes) # plan.file_checksum) =>
        target = pre_bytes

C15_RollbackWithoutBackup ==
    [][(rb_pc = "idle" /\ rb_pc' # "idle"
            /\ (rb_run_id' \notin DOMAIN audit \/ audit[rb_run_id'].backup_path = NoPath)) =>
          /\ rb_pc' = "returned"
          /\ ~rb_result'.success
          /\ rb_result'.error # None
          /\ target' = target
          /\ audit' = audit]_vars

\* C16: an audit entry is written once per run id and is immutable afterwards
\* except for the rollback annotation: no log_fix or log_rollback call changes
\* an existing entry in anything but rolled_back and rollback_timestamp, and
\* log_rollback leaves the entries of all other run ids unchanged.
C16_EntryImmutable ==
    [][\A id \in DOMAIN audit_dir :
          /\ id \in DOMAIN audit_dir'
          /\ [audit_dir[id] EXCEPT
                 !.rolled_back = audit_dir'[id].rolled_back,
                 !.rollback_timestamp = audit_dir'[id].rollback_timestamp] = audit_dir'[id]]_vars

\* C17: write_file reports fallback_used = true exactly when preserve mode
\* was requested, the preserve writer raised and the content was produced by
\* the canonical writer, and then reports mode canonical; when canonical mode
\* was requested and the canonical writer raises, the attempt ends with
\* success = false and the target unchanged.
C17_Fallback ==
    [][LET canonical == CanonicalWrite(parse_result, accepted_patches)
           reported == /\ result.fallback_used = fallback_used
                       /\ result.mode = IF fallback_used THEN "canonical" ELSE mode
       IN  /\ (fx_pc = "writer" /\ fx_pc' = "mkstemp") =>
                /\ fallback_used' <=> (mode = "preserve" /\ fault' = "writer")
                /\ fallback_used' => (content' = canonical /\ canonical # RaisedBytes)
                /\ (~fallback_used' /\ mode = "preserve") =>
                       content' = PreserveWrite(target, parse_result.encoding, accepted_patches)
           /\ (fx_pc = "writer" /\ mode = "canonical" /\ canonical = RaisedBytes) =>
                /\ fx_pc' = "log_fix"
                /\ ~result'.success /\ result'.error # None
                /\ ~result'.fallback_used
                /\ target' = target /\ target = pre_bytes
           /\ (fx_pc # "log_fix" /\ fx_pc' = "log_fix") =>
                /\ reported'
                /\ fallback_used' => mode = "preserve"
           /\ (fx_pc = "log_fix" /\ fx_pc' = "returned") =>
                /\ result' = result
                /\ (mode = "canonical" /\ canonical = RaisedBytes) => target = pre_bytes]_vars

\* write_file returned success after the preserve writer raised and the
\* canonical writer produced the content that is now in the target
C17_Witness ==
    /\ fx_pc = "returned"
    /\ mode = "preserve"
    /\ result.success
    /\ result.fallback_used
    /\ result.mode = "canonical"
    /\ target = content
    /\ content = CanonicalWrite(parse_result, accepted_patches)

\* C18: while the tokenizer is in state IN_QUOTED, CR and LF are appended to
\* the current field and do not end the record; reading a character yields a
\* record only if it is a terminator read in FIELD_START, IN_UNQUOTED or
\* QUOTE_IN_QUOTED.
C18_QuotedTerminators ==
    [][(tok_pc = "scan" /\ tok.i <= Len(text)) =>
          LET c == text[tok.i] IN
          /\ (tok.state = "IN_QUOTED" /\ is_line_terminator(c)) =>
                /\ tok'.field_buffer = Append(tok.field_buffer, c)
                /\ tok'.fields = tok.fields
                /\ tok'.records = tok.records
                /\ tok'.state = "IN_QUOTED"
          /\ tok'.records # tok.records =>
                /\ is_line_terminator(c)
                /\ tok.state \in {"FIELD_START", "IN_UNQUOTED", "QUOTE_IN_QUOTED"}
                /\ tok'.state = "FIELD_START"]_vars

\* A record was yielded whose only field is a quoted line feed
C18_Witness ==
    /\ tok_pc = "done"
    /\ text = <<QUOTE, LF, QUOTE>>
    /\ Len(tok.records) = 1
    /\ tok.records[1].fields = << <<LF>> >>

\* The pieces of t between the occurrences of the terminator sep
RECURSIVE PiecesBetween(_, _, _)
PiecesBetween(t, sep, piece) ==
    IF t = <<>> THEN <<piece>>
    ELSE IF Len(t) >= Len(sep) /\ SubSeq(t, 1, Len(sep)) = sep
    THEN <<piece>> \o PiecesBetween(SubSeq(t, Len(sep) + 1, Len(t)), sep, <<>>)
    ELSE PiecesBetween(Tail(t), sep, Append(piece, Head(t)))

\* C19: for a text of N single-line, non-empty records separated by one kind
\* of terminator (LF, CR or CRLF), tokenize_stream yields exactly N records
\* and the k-th record has start_line = end_line = k.
C19_LineNumbers ==
    tok_pc = "done" =>
        \A sep \in {<<LF>>, <<CR>>, <<CR, LF>>} :
            LET lines == PiecesBetween(text, sep, <<>>)
                single(line) ==
                    /\ \A k \in 1..Len(line) : line[k] \in {"a", DELIM}
                    /\ \E k \in 1..Len(line) : line[k] = "a"
            IN  (\A k \in 1..Len(lines) : single(lines[k])) =>
                    /\ Len(tok.records) = Len(lines)
                    /\ \A k \in 1..Len(lines) :
                         /\ tok.records[k].start_line = k
                         /\ tok.records[k].end_line = k

\* C20: in tokenize_line and tokenize_stream, inside a quoted field each pair
\* of consecutive quote characters contributes exactly one literal quote to
\* the field value, and a delimiter read inside the quoted field is field
\* data and does not start a new field.
C20_QuotedField ==
    [][LET quoted(s, s2) ==
               LET c == text[s.i] IN
               /\ (s.state = "IN_QUOTED" /\ c = QUOTE) =>
                     /\ s2.state = "QUOTE_IN_QUOTED"
                     /\ s2.field_buffer = s.field_buffer
                     /\ s2.fields = s.fields
               /\ (s.state = "QUOTE_IN_QUOTED" /\ c = QUOTE) =>
                     /\ s2.state = "IN_QUOTED"
                     /\ s2.field_buffer = Append(s.field_buffer, QUOTE)
                     /\ s2.fields = s.fields
               /\ (s.state = "IN_QUOTED" /\ c = DELIM) =>
                     /\ s2.state = "IN_QUOTED"
                     /\ s2.field_buffer = Append(s.field_buffer, DELIM)
                     /\ s2.fields = s.fields
           value == {v \in SeqsUpTo({"a", DELIM, QUOTE}, MaxTextLen) :
                        text = <<QUOTE>> \o DoubleQuotes(v) \o <<QUOTE>>}
       IN  /\ (tok_pc = "scan" /\ tok.i <= Len(text)) => quoted(tok, tok')
           /\ (tok_pc = "done" /\ lt_pc = "scan" /\ lt.i <= Len(text)) => quoted(lt, lt')
           /\ (lt_pc = "scan" /\ lt_pc' = "done") =>
                 \A v \in value :
                    /\ lt'.fields = <<v>>
                    /\ tok.records = IF v = <<>> THEN <<>>
                                     ELSE <<[fields |-> <<v>>, start_line |-> 1,
                                             end_line |-> 1]>>]_vars

\* Both functions returned the one-quote field of the text of four quotes
C20_Witness ==
    /\ lt_pc = "done"
    /\ text = <<QUOTE, QUOTE, QUOTE, QUOTE>>
    /\ lt.fields = << <<QUOTE>> >>
    /\ Len(tok.records) = 1
    /\ tok.records[1].fields = << <<QUOTE>> >>

\* C21 (as stated): every record tokenize_stream yields contains at least one
\* non-blank field.
C21_NoBlankRecord ==
    \A k \in 1..Len(tok.records) : ~SkippedRow(tok.records[k].fields)

\* C21: tokenize_stream never yields an empty record: every yielded record
\* contains at least one field that is not the empty string.
C21_NoEmptyRecord ==
    \A k \in 1..Len(tok.records) :
        \E n \in 1..Len(tok.records[k].fields) : tok.records[k].fields[n] # <<>>

\* A line of empty fields was read and not yielded, the next line was
C21_Witness ==
    /\ tok_pc = "done"
    /\ text = <<DELIM, LF, "a">>
    /\ Len(tok.records) = 1
    /\ tok.records[1].fields = << <<"a">> >>

-----------------------------------------------------------------------------
(* parse_bytes, parse_header, map_columns and the rows of a ParseResult    *)

\* The records of the file as parse_bytes reads them
PbRecords == tokenize_stream(Decode(pb_data, detect_encoding(pb_data)))

\* The rows of the last iteration
PbRows == SelectSeq(pb_items, LAMBDA item : item.kind = "row")

\* C22: once parse_bytes has returned for a file with fewer than two records,
\* or whose header line parse_header rejects, the ParseResult has a FATAL
\* error among its header_errors and no iteration of its rows yields a row.
C22_FatalOutcome ==
    (/\ pb_result # NoParseResult
     /\ \/ Len(PbRecords) < 2
        \/ parse_header(PbRecords[1].fields).header = NoHeader)
    => /\ has_fatal_errors(pb_result)
       /\ PbRows = <<>>

\* The format marker or one of the five mandatory header fields is missing
\* or does not parse
MandatoryFieldFails(tokens) ==
    \/ Len(tokens) < 5
    \/ MarkerUpper(Strip(tokens[1])) # <<"EXTF">>
    \/ ~IsInt(tokens[2])
    \/ ~IsInt(tokens[3])
    \/ Strip(tokens[4]) = <<>>
    \/ ~IsInt(tokens[5])

\* C23: when parse_header was called on a header line whose marker or one of
\* whose five mandatory fields is missing or unparsable, it returned no
\* header together with a FATAL error, and the rows of the file yield no row.
C23_MandatoryFatal ==
    (pb_parsed # NotParsed /\ MandatoryFieldFails(PbRecords[1].fields))
    => /\ pb_parsed.header = NoHeader
       /\ \E k \in 1..Len(pb_parsed.errors) : pb_parsed.errors[k].severity = "fatal"
       /\ PbRows = <<>>

\* The optional header fields of a complete header line whose value is
\* present but cannot be coerced, or is coerced to a value DatevHeader does
\* not accept
UnusableOptionalFields(tokens) ==
    {f \in {"created_at", "fiscal_year_start", "account_length", "period_from",
            "period_to", "currency", "festschreibung"} :
        CASE f = "created_at" ->
                 get_token(tokens, 5) # <<>> /\ parse_datetime(tokens, 5) = Absent
          [] f = "fiscal_year_start" ->
                 get_token(tokens, 13) # <<>> /\ parse_date(tokens, 13) = Absent
          [] f = "account_length" ->
                 get_token(tokens, 14) # <<>>
                 /\ (parse_int(tokens, 14) < 4 \/ parse_int(tokens, 14) > 9)
          [] f = "period_from" ->
                 get_token(tokens, 15) # <<>> /\ parse_date(tokens, 15) = Absent
          [] f = "period_to" ->
                 get_token(tokens, 16) # <<>> /\ parse_date(tokens, 16) = Absent
          [] f = "currency" ->
                 get_token(tokens, 23) # <<>> /\ WordLen(get_token(tokens, 23)[1]) > 3
          [] f = "festschreibung" ->
                 get_token(tokens, 30) # <<>>
                 /\ (parse_int(tokens, 30) < 0 \/ parse_int(tokens, 30) > 1)}

\* C24: when parse_header was called on a header line whose mandatory fields
\* are valid, every optional field with an unusable value is absent from the
\* header it returned, a warning is among the errors, and a header was
\* returned.
C24_OptionalDegrades ==
    (/\ pb_parsed # NotParsed
     /\ ~MandatoryFieldFails(PbRecords[1].fields)
     /\ IntOf(PbRecords[1].fields[2]) >= 500 /\ IntOf(PbRecords[1].fields[2]) <= 999
     /\ UnusableOptionalFields(PbRecords[1].fields) # {})
    => /\ pb_parsed.header # NoHeader
       /\ \E k \in 1..Len(pb_parsed.errors) : pb_parsed.errors[k].severity = "warn"
       /\ \A f \in UnusableOptionalFields(PbRecords[1].fields) :
              IF f = "currency" THEN pb_parsed.header[f] = <<>>
              ELSE pb_parsed.header[f] = Absent

\* C25: the ColumnMappings of a parsed file hold exactly one ColumnMapping
\* for each label of the column record, the k-th for column index k - 1.
C25_NoColumnDropped ==
    pb_result.row_factory_fn = "row_factory"
    => /\ Len(pb_result.columns.mappings) = Len(pb_result.columns.raw_labels)
       /\ \A k \in 1..Len(pb_result.columns.mappings) :
              pb_result.columns.mappings[k].index = k - 1

\* C26: in every emitted BookingRow, for every canonical id c of the column
\* mapping whose column the record reaches, fields_raw[c] is the raw token at
\* column index get_index(c), unchanged.
C26_FieldsRaw ==
    \A n \in 1..Len(PbRows) :
        \A j \in 1..Len(pb_result.columns.mappings) :
            LET c == pb_result.columns.mappings[j].canonical_id
                index == mappings_get_index(pb_result.columns, c)
                row == PbRows[n].row
            IN  index < Len(row.raw_tokens)
                => /\ c \in DOMAIN row.fields_raw
                   /\ row.fields_raw[c] = row.raw_tokens[index + 1]

\* The lines of the file, each one record of it (no quoted line break in the
\* files of the model), as the fields between its delimiters
PbFileRecords ==
    LET lines == split_lines(Decode(pb_data, detect_encoding(pb_data)))
    IN  [k \in 1..Len(lines) |-> tokenize_csv_line(lines[k].content)]

\* C27: for a file whose header and column records are not empty, every
\* emitted BookingRow has row_no = 2 + the position of its record among the
\* data records of the file, blank ones included: the row numbered n holds
\* the fields of the n-th record, n >= 3; a record of blank fields only is
\* not emitted; the emitted row numbers strictly increase.
C27_RowNumbers ==
    \A n \in 1..Len(PbRows) :
        (AnyField(PbFileRecords[1]) /\ AnyField(PbFileRecords[2]))
        => /\ PbRows[n].row.row_no >= 3
           /\ PbRows[n].row.row_no <= Len(PbFileRecords)
           /\ PbFileRecords[PbRows[n].row.row_no] = PbRows[n].row.raw_tokens
           /\ ~SkippedRow(PbRows[n].row.raw_tokens)
           /\ n > 1 => PbRows[n - 1].row.row_no < PbRows[n].row.row_no

-----------------------------------------------------------------------------
(* The row limit                                                           *)

\* C28: the iterator yields at most RowLimit rows; when it has ended, the
\* warning DVL-ROW-001 was yielded if and only if the file holds more than
\* RowLimit (non-blank) data records; the warning is the last item yielded.
C28_RowCap ==
    /\ rf_emitted <= RowLimit
    /\ rf_pc = "done" =>
           (("DVL-ROW-001" \in {rf_tail[k] : k \in 1..Len(rf_tail)})
            <=> rf_data_rows > RowLimit)
    /\ \A k \in 1..Len(rf_tail) : rf_tail[k] = "DVL-ROW-001" => k = Len(rf_tail)

-----------------------------------------------------------------------------
(* derive_year                                                             *)

\* derive_year has returned for a TTMM of four digits with day 1..31 and
\* month 1..12 and with both period bounds given
DyPeriodCase ==
    /\ dy_pc = "done"
    /\ dy_period_from # NoDate /\ dy_period_to # NoDate
    /\ Len(dy_ttmm) = 4 /\ \A k \in 1..4 : dy_ttmm[k] \in Digits
    /\ TwoDigits(SubSeq(dy_ttmm, 1, 2)) \in 1..31
    /\ TwoDigits(SubSeq(dy_ttmm, 3, 4)) \in 1..12

DyDay == TwoDigits(SubSeq(dy_ttmm, 1, 2))
DyMonth == TwoDigits(SubSeq(dy_ttmm, 3, 4))

\* The years y among the two given whose date y-month-day exists and lies
\* within the period
DyCandidateYears ==
    {y \in {dy_period_from[1], dy_period_to[1]} :
        /\ DyDay <= DaysInMonth(y, DyMonth)
        /\ DateLeq(dy_period_from, <<y, DyMonth, DyDay>>)
        /\ DateLeq(<<y, DyMonth, DyDay>>, dy_period_to)}

\* C29: with both period bounds in the same calendar year Y, derive_year
\* returns FAILED and no year if day and month form no date of Y; else year
\* Y, with HIGH if the date lies within [period_from, period_to] and with
\* MEDIUM if it lies outside.
C29_SameYear ==
    (DyPeriodCase /\ dy_period_from[1] = dy_period_to[1])
    => IF DyDay > DaysInMonth(dy_period_from[1], DyMonth)
       THEN dy_derived.confidence = "failed" /\ dy_derived.year = Absent
       ELSE /\ dy_derived.year = dy_period_from[1]
            /\ dy_derived.derived_date = <<dy_period_from[1], DyMonth, DyDay>>
            /\ dy_derived.confidence =
                   IF DyCandidateYears # {} THEN "high" ELSE "medium"

\* A date of the period's year reported with MEDIUM: it lies outside
C29_Witness ==
    /\ DyPeriodCase /\ dy_period_from[1] = dy_period_to[1]
    /\ DateLeq(dy_period_from, dy_period_to)
    /\ dy_derived.confidence = "medium"
    /\ dy_derived.year = dy_period_from[1]

\* C30: with period bounds in different calendar years, the candidates are
\* the dates of either bound's year that exist and lie within the period:
\* none gives FAILED and no year, exactly one gives its year with HIGH, two
\* give AMBIGUOUS with the earlier year.
C30_CrossYear ==
    (DyPeriodCase /\ dy_period_from[1] # dy_period_to[1])
    => CASE Cardinality(DyCandidateYears) = 0 ->
                dy_derived.confidence = "failed" /\ dy_derived.year = Absent
         [] Cardinality(DyCandidateYears) = 1 ->
                /\ dy_derived.confidence = "high"
                /\ dy_derived.year \in DyCandidateYears
         [] OTHER ->
                /\ dy_derived.confidence = "ambiguous"
                /\ dy_derived.year \in DyCandidateYears
                /\ \A y \in DyCandidateYears : dy_derived.year <= y

\* Both years give a date within the period and the earlier one is reported
C30_Witness ==
    /\ DyPeriodCase /\ dy_period_from[1] # dy_period_to[1]
    /\ Cardinality(DyCandidateYears) = 2
    /\ dy_derived.confidence = "ambiguous"
    /\ dy_derived.year = dy_period_from[1]

-----------------------------------------------------------------------------
(* Run ids, backups, row numbers and written values                        *)

\* C31: get_entry never reads a file outside the audit directory and returns
\* None for a run id whose entry path lies outside it.
C31_UnsafeRunId ==
    /\ au_read \notin DOMAIN au_outside
    /\ au_read = UnsafeRunId => au_got = NoEntry

\* C32: every backup made by a call of create_backup is still at its path
\* with the content copied then, so no call wrote to a path that existed,
\* whether made by an earlier call or found there; and while the search for
\* a free name runs, the counter is at most the number of backup files, so
\* the search ends.
C32_FreshBackupPath ==
    /\ \A k \in 1..Len(bm_made) :
           /\ bm_made[k].path \in DOMAIN bm_backups
           /\ bm_backups[bm_made[k].path] = bm_made[k].content
           /\ \A j \in 1..(k - 1) : bm_made[j].path # bm_made[k].path
    /\ \A path \in DOMAIN bm_backups :
           (\A k \in 1..Len(bm_made) : bm_made[k].path # path)
           => bm_backups[path] = OldBackup
    /\ bm_pc = "loop" => bm_counter <= Cardinality(DOMAIN bm_backups)

\* A third backup made after a collision, with other content than the first
C32_Witness ==
    /\ Len(bm_made) = 3
    /\ bm_made[3].path = BackupName(2)
    /\ bm_made[1].content # bm_made[3].content

\* The records of the file before and after the preserve writer, as the
\* parser numbers them
WrOldRecords == tokenize_stream(Decode(original_bytes, encoding))
WrNewRecords == tokenize_stream(Decode(result_bytes, encoding))

\* C33: when the preserve writer has applied a patch for row r to a file in
\* which the parser numbers a record r, line r of the file holds that record
\* and the written file has the same records as before except record r.
C33_LineIsRecord ==
    (/\ wr_pc = "written" /\ wr_patches # <<>> /\ result_bytes # RaisedBytes
     /\ Len(WrOldRecords) >= wr_patches[1].row_no)
    => LET r == wr_patches[1].row_no
           lines == split_lines(Decode(original_bytes, encoding))
       IN  /\ r <= Len(lines)
           /\ tokenize_stream(lines[r].content) = <<[WrOldRecords[r] EXCEPT
                                                      !.start_line = 1, !.end_line = 1]>>
           /\ Len(WrNewRecords) = Len(WrOldRecords)
           /\ \A k \in 1..Len(WrOldRecords) :
                  k # r => WrNewRecords[k].fields = WrOldRecords[k].fields

\* The records of the written file, read in the encoding the writer used
WrWrittenRecords ==
    tokenize_stream(Decode(result_bytes,
                           IF wr_pc = "canonical" THEN "windows-1252" ELSE encoding))

\* Every physical line of the original file is one record of the parser
WrPlainFile ==
    LET lines == split_lines(Decode(original_bytes, encoding)) IN
    /\ Len(lines) = Len(WrOldRecords)
    /\ \A k \in 1..Len(lines) :
         LET recs == tokenize_stream(lines[k].content) IN
         Len(recs) = 1 /\ recs[1].fields = WrOldRecords[k].fields

\* The patch carries the value the preview shows for the field's value: any
\* value for set_field, the upper-cased value for upper, the normalized number
\* for normalize_decimal, a proper prefix for truncate; in each case free of
\* delimiters, quotes and line breaks.  A delete_row patch has no field value
\* to show.
WrPreviewPatch(patch, value) ==
    /\ patch.operation # "delete_row"
    /\ \A k \in 1..Len(patch.new_value) : patch.new_value[k] \notin {DELIM, QUOTE, CR, LF}
    /\ patch.operation = "upper" => patch.new_value = Upper(value)
    /\ patch.operation = "normalize_decimal" => patch.new_value = NormalizeDecimal(value)
    /\ patch.operation = "truncate" =>
         /\ Len(patch.new_value) < Len(value)
         /\ patch.new_value = SubSeq(value, 1, Len(patch.new_value))

\* C34: after a successful write in either mode, the field patch.field of row
\* patch.row_no of the written file holds patch.new_value, for every patch of
\* the plan whose row and column exist in the file.
C34_WrittenValue ==
    (/\ wr_pc \in {"written", "canonical"} /\ wr_patches # <<>>
     /\ result_bytes # RaisedBytes /\ WrPlainFile)
    => \A n \in 1..Len(wr_patches) :
         LET patch == wr_patches[n]
             col == get_index(patch.field) + 1
         IN  (/\ patch.row_no <= Len(WrOldRecords)
              /\ col \in 1..Len(WrOldRecords[patch.row_no].fields)
              /\ WrPreviewPatch(patch, WrOldRecords[patch.row_no].fields[col]))
             => /\ patch.row_no <= Len(WrWrittenRecords)
                /\ col <= Len(WrWrittenRecords[patch.row_no].fields)
                /\ WrWrittenRecords[patch.row_no].fields[col] = patch.new_value

\* C35: with first-wins or last-wins resolution the patch list of a plan built
\* by PatchPlanner.plan holds at most one patch per (row_no, field).
C35_OnePatchPerKey ==
    (pl_pc = "returned" /\ pl_resolution \in {"first_wins", "last_wins"}) =>
        \A j, k \in 1..Len(planned.patches) :
            KeyOf(planned.all[planned.patches[j]]) = KeyOf(planned.all[planned.patches[k]])
                => j = k

\* C36: canonical round trip.  Tokenizing what the canonical writer wrote for
\* a plan without patches and a file with a data row yields the header tokens,
\* the column labels and, row by row, the field values of the parse result it
\* was written from.
C36_CanonicalRoundTrip ==
    (/\ wr_pc = "canonical" /\ wr_patches = <<>> /\ result_bytes # RaisedBytes
     /\ ParseResultOf(original_bytes).rows # <<>>) =>
        LET parse == ParseResultOf(original_bytes)
            recs == WrWrittenRecords
            rows == DataRows(recs)
        IN  /\ Len(recs) >= 2
            /\ recs[1].fields = parse.header_tokens
            /\ recs[2].fields = parse.raw_labels
            /\ Len(rows) = Len(parse.rows)
            /\ \A k \in 1..Len(parse.rows) :
                   rows[k].raw_tokens = parse.rows[k].raw_tokens

\* C37: for a text without a line break, PreserveWriter._tokenize_csv_line
\* returns as many tokens as tokenize_line returns fields, and token i holds
\* field i: a token in quotes holds the field's value between its quotes, a
\* token without a quote character is the field's value.
C37_SameFieldBoundaries ==
    (lt_pc = "done" /\ \A k \in 1..Len(text) : text[k] \notin {CR, LF}) =>
        LET tokens == tokenize_csv_line(text) IN
        /\ Len(tokens) = Len(lt.fields)
        /\ \A i \in 1..Len(tokens) :
             /\ WasQuoted(tokens[i]) /\ Len(tokens[i]) >= 2 =>
                   lt.fields[i] = UndoubleQuotes(SubSeq(tokens[i], 2, Len(tokens[i]) - 1))
             /\ (\A k \in 1..Len(tokens[i]) : tokens[i][k] # QUOTE) =>
                   lt.fields[i] = tokens[i]

\* The text the preserve writer put in the place of line r: the written text
\* without the lines before and after it and without the line's terminator
WrPatchedLine(r) ==
    LET lines == split_lines(Decode(original_bytes, encoding))
        new == Decode(result_bytes, encoding)
        before == Len(JoinLines(SubSeq(lines, 1, r - 1)))
        after == Len(JoinLines(SubSeq(lines, r + 1, Len(lines)))) + Len(lines[r].ending)
    IN  SubSeq(new, before + 1, Len(new) - after)

\* The value the writer reads out of a token
TokenValue(token) ==
    IF WasQuoted(token) THEN UndoubleQuotes(SubSeq(token, 2, Len(token) - 1)) ELSE token

\* C38: after the preserve writer patched one field of a line of a file with
\* one record per line, the writer and the parser agreeing on the line's
\* fields, the patched line is one record with as many fields as before, every
\* other field has its previous value and the patched field holds the
\* operation's result.
C38_PatchedLineFields ==
    (/\ wr_pc = "written" /\ wr_patches # <<>> /\ result_bytes # RaisedBytes
     /\ encoding = "utf-8" /\ WrPlainFile)
    => LET patch == wr_patches[1]
           r == patch.row_no
           col == get_index(patch.field) + 1
           lines == split_lines(Decode(original_bytes, encoding))
       IN  (/\ r <= Len(lines)
            /\ LET old == tokenize_stream(lines[r].content)
                   tokens == tokenize_csv_line(lines[r].content)
               IN  /\ Len(old) = 1
                   /\ Len(old[1].fields) = Len(tokens)
                   /\ \A j \in 1..Len(tokens) : old[1].fields[j] = TokenValue(tokens[j])
                   /\ col \in 1..Len(tokens))
           => LET old == tokenize_stream(lines[r].content)[1].fields
                  new == tokenize_stream(WrPatchedLine(r))
              IN  /\ Len(new) = 1
                  /\ Len(new[1].fields) = Len(old)
                  /\ \A j \in 1..Len(old) : j # col => new[1].fields[j] = old[j]
                  /\ new[1].fields[col] =
                         OperationApply(patch.operation, old[col], patch.new_value)

\* s occurs in t as a contiguous run of characters
Contains(t, s) == \E k \in 0..(Len(t) - Len(s)) : SubSeq(t, k + 1, k + Len(s)) = s

\* C39: after a plan with a delete_row patch for an existing row r of a file
\* with one record per line has been written in either mode, the written file
\* has one record less, the others unchanged, and no field of it contains the
\* DELETE marker.
C39_RowDeleted ==
    (/\ wr_pc \in {"written", "canonical"} /\ wr_patches # <<>>
     /\ result_bytes # RaisedBytes /\ WrPlainFile
     /\ wr_patches[1].operation = "delete_row"
     /\ wr_patches[1].row_no <= Len(WrOldRecords)
     /\ get_index(wr_patches[1].field) + 1
            \in 1..Len(WrOldRecords[wr_patches[1].row_no].fields))
    => LET r == wr_patches[1].row_no
           new == WrWrittenRecords
       IN  /\ \A k \in 1..Len(new) : \A j \in 1..Len(new[k].fields) :
                  ~Contains(new[k].fields[j], DeleteMarker)
           /\ Len(new) = Len(WrOldRecords) - 1
           /\ \A k \in 1..Len(new) :
                  new[k].fields = WrOldRecords[IF k < r THEN k ELSE k + 1].fields

\* C40: when only fiscal_year_start is given and derive_year returns MEDIUM,
\* the derived date lies inside the fiscal year: not before fiscal_year_start
\* and before the same day and month of the next year.
C40_InsideFiscalYear ==
    (/\ dy_pc = "done"
     /\ dy_period_from = NoDate /\ dy_period_to = NoDate
     /\ dy_fiscal_year_start # NoDate
     /\ dy_derived.confidence = "medium")
    => LET next_start == <<dy_fiscal_year_start[1] + 1, dy_fiscal_year_start[2],
                           dy_fiscal_year_start[3]>>
       IN  /\ DateLeq(dy_fiscal_year_start, dy_derived.derived_date)
           /\ DateLeq(dy_derived.derived_date, next_start)
           /\ dy_derived.derived_date # next_start

====
